---- MODULE Spec2Model ----
(***************************************************************************)
(* Model of the pluggable message-handler dispatch of the Kafka demo       *)
(* pipeline: the handler classes (BaseMessageHandler and its five          *)
(* subclasses), the handler selector (getHandler / createMessageHandler),  *)
(* the Kafka consumer service (eachMessage callback) and the consumer      *)
(* process (startServices, signal handlers).                               *)
(*                                                                         *)
(* The specifications share the variables:                                 *)
(*   Spec        the consumer process of src/src/consumer.ts               *)
(*   SpecHandler one handler object driven directly through its public     *)
(*               methods (initialize, messageHandler, getStatus, cleanup)  *)
(*   SpecDirect  one handler object driven through safeProcessSingle       *)
(*   SpecIndex   one handler object given messages of differing offsets    *)
(*   SpecLoop    the run loop of a started consumer and the callbacks it   *)
(*               has in flight                                             *)
(*   SpecOverlap one FileHandler whose calls overlap                       *)
(*   SpecDeliver one KafkaConsumerService and its registered handlers      *)
(*   SpecElastic one ElasticHandler and the messages it indexed            *)
(*   SpecProducer one KafkaProducerService whose calls overlap             *)
(*   SpecRetry   one call of sendWithRetry                                 *)
(*   SpecLog     one LogConsumer and its statistics                        *)
(*   SpecBatch   one request handled by batchSend                          *)
(***************************************************************************)
EXTENDS Integers, Sequences, FiniteSets, TLC

\* ------------------------------------------------------------------ bounds
\* number of dispatch calls (messageHandler / safeProcessSingle) in a run
MaxDispatch == 12
\* number of lines the model lets the log file grow to
MaxLines == 2
\* number of messages the broker client delivers in a run of the process
MaxDelivered == 3
\* number of "error" events the Redis client emits in a run
MaxClientErrors == 1
\* number of rows the model lets the SQLite table grow to
MaxRows == 2
\* number of termination signals sent to the process
MaxSignals == 2
\* number of dispatch calls in a run with messages of differing offsets
MaxIndexed == 3
\* number of calls a caller lets overlap on one handler
MaxOverlap == 2
\* number of startConsuming calls made on one consumer service
MaxStarts == 2
\* number of calls (sends and disconnects) made on one producer service
MaxProducerCalls == 4
\* largest maxRetries argument given to sendWithRetry
MaxRetriesArg == 3
\* number of messages the run loop hands to LogConsumer.processMessage
MaxLogMessages == 2
\* largest number of messages in the body of a batch request
MaxBatch == 2

\* ------------------------------------------------------- message universe
Topics == {"user-events", "error-logs"}
Partitions == {0, 1}
Offsets == {"41", "42"}

\* message values: two JSON objects, a non-JSON text and the empty string
VJsonA == "{userId:u1,vehicleId:v1,timeStamp:t1}"
VJsonB == "{userId:u1,vehicleId:v2,timeStamp:t2}"
VText == "plain text"
VEmpty == ""
JsonValues == {VJsonA, VJsonB}
Values == {VJsonA, VText, VEmpty}

RawKafkaMessage == [topic : Topics, partition : Partitions,
                    offset : Offsets, value : Values]

\* JSON.parse: an object for a JSON text, a SyntaxError otherwise
JSONParse(v) ==
    IF v \in JsonValues
    THEN [ok |-> TRUE,
          userId |-> "u1",
          vehicleId |-> IF v = VJsonA THEN "v1" ELSE "v2",
          timeStamp |-> IF v = VJsonA THEN "t1" ELSE "t2"]
    ELSE [ok |-> FALSE, userId |-> "", vehicleId |-> "", timeStamp |-> ""]

\* JSON.stringify of a string: the text in double quotes
JSONStringify(v) == "\"" \o v \o "\""

\* ---------------------------------------------------------- handler names
\* MessageHandlerTypes of types.ts
MessageHandlerTypes ==
    {"file", "sql", "sqlite", "elastic", "elasticsearch", "flink", "redis"}
\* values of MESSAGE_HANDLER tried by the model ("" is the unset variable)
HandlerTypeEnv == MessageHandlerTypes \cup {"carrierpigeon", ""}
\* values of DB_TABLE_NAME tried by the model ("" is the unset variable)
TableNameEnv == {"", "events_tbl"}

Classes == {"FileHandler", "SqlHandler", "ElasticHandler", "FlinkHandler",
            "RedisHandler"}

NoHandler == [cls |-> "none"]

VARIABLES
    envTable,      \* process.env.DB_TABLE_NAME
    handlerType,   \* the handler name given to getHandler
    handler,       \* the handler object (fields of BaseMessageHandler + subclass)
    sqlRows,       \* rows of the SQLite table
    fileLines,     \* lines of the log file
    esDocs,        \* documents of the Elasticsearch index
    redisKeys,     \* keys of the Redis store
    lastCall,      \* the most recent call on the handler and how it settled
    hist,          \* history: dispatches by kind of message, and faults
    pc,            \* position of the consumer process
    exitCode,      \* argument of process.exit, -1 while running
    messageHandler,\* consumer.ts: the module variable messageHandler
    consumer,      \* fields of the Kafka service object (KafkaConsumerService,
                   \* LogConsumer or KafkaProducerService) and of its client;
                   \* or the call or request a specification follows
    inflight,      \* the message whose eachMessage callback is running
    shutdown,      \* signal handlers awaiting the Kafka disconnect
    delivery       \* history: messages delivered, handler calls, exceptions

hvars == <<envTable, handlerType, handler, sqlRows, fileLines, esDocs,
           redisKeys, lastCall, hist>>
pvars == <<pc, exitCode, messageHandler, consumer, inflight, shutdown,
           delivery>>
vars == <<envTable, handlerType, handler, sqlRows, fileLines, esDocs,
          redisKeys, lastCall, hist, pc, exitCode, messageHandler, consumer,
          inflight, shutdown, delivery>>

\* ------------------------------------------------------------ JS helpers
\* a || b on strings ("" stands for undefined as well)
OrElse(a, b) == IF a = "" THEN b ELSE a

Max(a, b) == IF a >= b THEN a ELSE b

\* a / b > k for the real quotient of non-negative integers a and b > 0
QuotientGreater(a, b, k) ==
    \/ a \div b > k
    \/ a \div b = k /\ a % b > 0

\* -------------------------------------------------- handlerSelector.ts
\* default options for each handler type
getHandlerOptions(handlerName, tbl) ==
    CASE handlerName = "file" ->
           [tableName |-> "", filePath |-> "./logs/kafka-dac-processed.log",
            indexName |-> ""]
      [] handlerName \in {"sql", "sqlite"} ->
           [tableName |-> OrElse(tbl, "kafka_messages"), filePath |-> "",
            indexName |-> ""]
      [] handlerName \in {"elastic", "elasticsearch"} ->
           [tableName |-> "", filePath |-> "", indexName |-> "kafka-messages"]
      [] OTHER ->
           \* flink and redis nest their settings one level deeper, so none
           \* of the option names the constructors read is present
           [tableName |-> "", filePath |-> "", indexName |-> ""]

\* variant: constructors that open the connection or database themselves
NewHandlerConnected(cls, name, options) ==
    [cls |-> cls,
     name |-> name,
     tableName |-> IF cls = "SqlHandler"
                   THEN OrElse(options.tableName, "kafka_messages") ELSE "",
     filePath |-> IF cls = "FileHandler"
                  THEN OrElse(options.filePath, "./logs/kafka-dac-messages.log")
                  ELSE "",
     indexName |-> IF cls = "ElasticHandler"
                   THEN OrElse(options.indexName, "kafka-messages") ELSE "",
     totalProcessed |-> 0,
     errors |-> 0,
     lastProcessed |-> 0,
     conn |-> IF cls \in {"SqlHandler", "ElasticHandler", "RedisHandler"}
              THEN "open" ELSE "none",
     insertStmt |-> cls = "SqlHandler"]

\* constructor of BaseMessageHandler followed by the subclass constructor
NewHandler(cls, name, options) ==
    [cls |-> cls,
     name |-> name,
     tableName |-> IF cls = "SqlHandler"
                   THEN OrElse(options.tableName, "kafka_messages") ELSE "",
     filePath |-> IF cls = "FileHandler"
                  THEN OrElse(options.filePath, "./logs/kafka-dac-messages.log")
                  ELSE "",
     indexName |-> IF cls = "ElasticHandler"
                   THEN OrElse(options.indexName, "kafka-messages") ELSE "",
     totalProcessed |-> 0,
     errors |-> 0,
     lastProcessed |-> 0,
     conn |-> "none",
     insertStmt |-> FALSE]

\* variant: the switch without the "sqlite" and "elasticsearch" cases
getHandlerNoAlias(handlerName, tbl) ==
    LET options == getHandlerOptions(handlerName, tbl) IN
    CASE handlerName = "file" ->
           [thrown |-> FALSE, h |-> NewHandler("FileHandler", "fileHandler", options)]
      [] handlerName = "sql" ->
           [thrown |-> FALSE, h |-> NewHandler("SqlHandler", "sqlHandler", options)]
      [] handlerName = "elastic" ->
           [thrown |-> FALSE,
            h |-> NewHandler("ElasticHandler", "elasticHandler", options)]
      [] handlerName = "flink" ->
           [thrown |-> FALSE, h |-> NewHandler("FlinkHandler", "flinkHandler", options)]
      [] handlerName = "redis" ->
           [thrown |-> FALSE, h |-> NewHandler("RedisHandler", "redisHandler", options)]
      [] OTHER ->
           [thrown |-> TRUE, h |-> NoHandler]

\* variant: the default case falls back to the file handler
getHandlerDefaultFile(handlerName, tbl) ==
    LET options == getHandlerOptions(handlerName, tbl) IN
    CASE handlerName \in {"sql", "sqlite"} ->
           [thrown |-> FALSE, h |-> NewHandler("SqlHandler", "sqlHandler", options)]
      [] handlerName \in {"elastic", "elasticsearch"} ->
           [thrown |-> FALSE,
            h |-> NewHandler("ElasticHandler", "elasticHandler", options)]
      [] handlerName = "flink" ->
           [thrown |-> FALSE, h |-> NewHandler("FlinkHandler", "flinkHandler", options)]
      [] handlerName = "redis" ->
           [thrown |-> FALSE, h |-> NewHandler("RedisHandler", "redisHandler", options)]
      [] OTHER ->
           [thrown |-> FALSE, h |-> NewHandler("FileHandler", "fileHandler", options)]

\* getHandler: the handler for a name, or the thrown Error
getHandler(handlerName, tbl) ==
    LET options == getHandlerOptions(handlerName, tbl) IN
    CASE handlerName = "file" ->
           [thrown |-> FALSE, h |-> NewHandler("FileHandler", "fileHandler", options)]
      [] handlerName \in {"sql", "sqlite"} ->
           [thrown |-> FALSE, h |-> NewHandler("SqlHandler", "sqlHandler", options)]
      [] handlerName \in {"elastic", "elasticsearch"} ->
           [thrown |-> FALSE,
            h |-> NewHandler("ElasticHandler", "elasticHandler", options)]
      [] handlerName = "flink" ->
           [thrown |-> FALSE, h |-> NewHandler("FlinkHandler", "flinkHandler", options)]
      [] handlerName = "redis" ->
           [thrown |-> FALSE, h |-> NewHandler("RedisHandler", "redisHandler", options)]
      [] OTHER ->
           [thrown |-> TRUE, h |-> NoHandler]

\* the handler names the message of getHandler's Error lists after
\* "Available:"
UnknownHandlerAvailable == {"file", "sql", "elastic"}

\* ---------------------------------------------- BaseMessageHandler.ts
\* updateStats(success) with count = 1; now is the Date of the call
updateStats(h, success, now) ==
    IF success
    THEN [h EXCEPT !.totalProcessed = @ + 1, !.lastProcessed = now]
    ELSE [h EXCEPT !.errors = @ + 1]

\* variant: the threshold compared with >= instead of >
BaseHealthyGe(totalProcessed, errors) ==
    \/ errors = 0
    \/ totalProcessed \div Max(errors, 1) >= 10

\* variant: an absolute error count, latched once an error has occurred
BaseHealthyLatched(totalProcessed, errors) == errors = 0

\* the healthy expression of getBaseStatus
BaseHealthy(totalProcessed, errors) ==
    \/ errors = 0
    \/ QuotientGreater(totalProcessed, Max(errors, 1), 10)

getBaseStatus(h) ==
    [name |-> h.name,
     healthy |-> BaseHealthy(h.totalProcessed, h.errors),
     lastProcessed |-> h.lastProcessed,
     totalProcessed |-> h.totalProcessed,
     errors |-> h.errors,
     connected |-> "n/a",
     diagnostic |-> FALSE]

\* ---------------------------------------------------------------- sinks
\* INSERT OR IGNORE under UNIQUE(topic, partition, offset); id is the
\* AUTOINCREMENT key.  The result carries the statement's changes count.
SameKey(r, topic, partition, offset) ==
    r.topic = topic /\ r.partition = partition /\ r.offset = offset

\* variant: a plain INSERT into a table without the UNIQUE constraint
InsertAlways(rows, topic, partition, offset, messageValue) ==
    [rows |-> rows \cup {[id |-> Cardinality(rows) + 1,
                          topic |-> topic,
                          partition |-> partition,
                          offset |-> offset,
                          message_value |-> messageValue]},
     changes |-> 1]

\* variant: INSERT OR REPLACE, which puts the new row in place of the old
InsertOrReplace(rows, topic, partition, offset, messageValue) ==
    [rows |-> {r \in rows : ~SameKey(r, topic, partition, offset)}
              \cup {[id |-> Cardinality(rows) + 1,
                     topic |-> topic,
                     partition |-> partition,
                     offset |-> offset,
                     message_value |-> messageValue]},
     changes |-> 1]

InsertOrIgnore(rows, topic, partition, offset, messageValue) ==
    IF \E r \in rows : SameKey(r, topic, partition, offset)
    THEN [rows |-> rows, changes |-> 0]
    ELSE [rows |-> rows \cup {[id |-> Cardinality(rows) + 1,
                               topic |-> topic,
                               partition |-> partition,
                               offset |-> offset,
                               message_value |-> messageValue]},
          changes |-> 1]

\* variant: client.index({index, body}) without an id, so that the index
\* generates a fresh one for every call
IndexDocumentAutoId(docs, id, body) ==
    docs \cup {[id |-> "auto-" \o ToString(Cardinality(docs) + 1),
                body |-> body]}

\* client.index({index, id, body}): a document with the same id is replaced
IndexDocument(docs, id, body) ==
    {d \in docs : d.id # id} \cup {[id |-> id, body |-> body]}

\* variant: SET with NX, which leaves an existing key as it is
SetExKeepExisting(keys, key, ttl, value) ==
    IF \E k \in keys : k.key = key
    THEN keys
    ELSE keys \cup {[key |-> key, ttl |-> ttl, value |-> value]}

\* redisClient.setEx(key, ttl, value): the key is (over)written
SetEx(keys, key, ttl, value) ==
    {k \in keys : k.key # key} \cup {[key |-> key, ttl |-> ttl, value |-> value]}

\* locationTTL of RedisHandler's options (seconds)
LocationTTL == 1200

\* ----------------------------------------------------- sql.handler.ts
\* SqlHandler.initialize; res is how far the database got:
\* "ok", "failOpen" (new DatabaseSync throws), "failPrepare" (a later
\* exec / prepare throws)
SqlInitialize(h, res) ==
    CASE res = "ok" ->
           [h |-> [h EXCEPT !.conn = "open", !.insertStmt = TRUE], thrown |-> FALSE]
      [] res = "failOpen" ->
           [h |-> h, thrown |-> TRUE]
      [] OTHER ->
           [h |-> [h EXCEPT !.conn = "open"], thrown |-> TRUE]

\* SqlHandler.safeProcessSingle; runOk is whether insertStmt.run returns
SqlSafeProcessSingle(h, rows, m, runOk) ==
    IF ~h.insertStmt
    THEN [h |-> h, rows |-> rows, thrown |-> TRUE, changes |-> 0]
    ELSE IF ~runOk
    THEN [h |-> h, rows |-> rows, thrown |-> TRUE, changes |-> 0]
    ELSE LET partition == IF m.partition = 0 THEN 0 ELSE m.partition
             res == InsertOrIgnore(rows, m.topic, partition, m.offset,
                                   JSONStringify(m.value))
         IN [h |-> h, rows |-> res.rows, thrown |-> FALSE,
             changes |-> res.changes]

\* SqlHandler.getStatus; queryOk is whether the COUNT(*) query returns
SqlGetStatus(h, rows, queryOk) ==
    LET baseStatus == getBaseStatus(h) IN
    IF h.conn = "open" /\ ~queryOk
    THEN [baseStatus EXCEPT !.healthy = FALSE, !.connected = "no",
                            !.diagnostic = TRUE]
    ELSE [baseStatus EXCEPT !.connected = IF h.conn = "open" THEN "yes" ELSE "no"]

\* SqlHandler.cleanup (errors of close() are caught)
SqlCleanup(h) ==
    [h |-> [h EXCEPT !.insertStmt = FALSE, !.conn = "none"], thrown |-> FALSE]

\* ------------------------------------------------- elastic.handler.ts
ElasticInitialize(h) ==
    [h |-> [h EXCEPT !.conn = "open"], thrown |-> FALSE]

\* variant: the document id made of topic, partition and offset
ElasticMessageHandlerTripleId(h, docs, m, indexOk, now) ==
    LET document == [topic |-> m.topic, partition |-> m.partition,
                     offset |-> m.offset, messageValue |-> m.value]
        id == m.topic \o "-" \o ToString(m.partition) \o "-" \o m.offset
    IN IF h.conn = "open" /\ indexOk
       THEN [h |-> updateStats(h, TRUE, now),
             docs |-> IndexDocument(docs, id, document), thrown |-> FALSE]
       ELSE [h |-> updateStats(h, FALSE, now), docs |-> docs, thrown |-> TRUE]

\* ElasticHandler.messageHandler; indexOk is whether client.index resolves
\* on an open client (an unset client throws a TypeError, a closed one
\* rejects)
ElasticMessageHandler(h, docs, m, indexOk, now) ==
    LET parsed == JSONParse(m.value)
        parsedValue == IF parsed.ok THEN parsed ELSE m.value
        document == [topic |-> m.topic, partition |-> m.partition,
                     offset |-> m.offset, messageValue |-> m.value]
        id == IF m.offset = "" THEN ToString(now) ELSE m.offset
    IN IF h.conn = "open" /\ indexOk
       THEN [h |-> updateStats(h, TRUE, now),
             docs |-> IndexDocument(docs, id, document), thrown |-> FALSE]
       ELSE [h |-> updateStats(h, FALSE, now), docs |-> docs, thrown |-> TRUE]

ElasticGetStatus(h) ==
    [getBaseStatus(h) EXCEPT !.connected = "yes"]

\* variant: cleanup that also clears the statistics
ElasticCleanupReset(h) ==
    IF h.conn = "none"
    THEN [h |-> h, thrown |-> TRUE]
    ELSE [h |-> [h EXCEPT !.conn = "closed", !.totalProcessed = 0,
                          !.errors = 0],
          thrown |-> FALSE]

\* ElasticHandler.cleanup: this.client.close() on an unset client throws
ElasticCleanup(h) ==
    IF h.conn = "none"
    THEN [h |-> h, thrown |-> TRUE]
    ELSE [h |-> [h EXCEPT !.conn = "closed"], thrown |-> FALSE]

\* --------------------------------------------------- redis.handler.ts
\* RedisHandler.initialize; connectOk is whether redisClient.connect resolves
RedisInitialize(h, connectOk) ==
    IF connectOk
    THEN [h |-> [h EXCEPT !.conn = "open"], thrown |-> FALSE]
    ELSE [h |-> [h EXCEPT !.conn = "unconnected"], thrown |-> TRUE]

\* the three keys written for a parsed location message
RedisKeysOf(parsed) ==
    [user |-> "location:user:" \o parsed.userId,
     vehicle |-> "location:vehicle:" \o parsed.vehicleId,
     time |-> "location:time:" \o parsed.timeStamp]

RedisWrites == {"user", "vehicle", "time"}

RECURSIVE SetExAll(_, _, _, _)
SetExAll(keys, names, parsed, value) ==
    IF names = {} THEN keys
    ELSE LET n == CHOOSE x \in names : TRUE
         IN SetExAll(SetEx(keys, RedisKeysOf(parsed)[n], LocationTTL, value),
                     names \ {n}, parsed, value)

\* RedisHandler.messageHandler; written is the set of setEx calls of the
\* Promise.all that resolve (all three on success)
RedisMessageHandler(h, keys, m, written) ==
    IF h.conn = "none"
    THEN [h |-> h, keys |-> keys, thrown |-> TRUE]
    ELSE LET locationData == JSONParse(m.value) IN
         IF ~locationData.ok
         THEN [h |-> [h EXCEPT !.errors = @ + 1], keys |-> keys, thrown |-> TRUE]
         ELSE IF h.conn = "open" /\ written = RedisWrites
         THEN [h |-> [h EXCEPT !.totalProcessed = @ + 1],
               keys |-> SetExAll(keys, RedisWrites, locationData, m.value),
               thrown |-> FALSE]
         ELSE [h |-> [h EXCEPT !.errors = @ + 1],
               keys |-> IF h.conn = "open"
                        THEN SetExAll(keys, written, locationData, m.value)
                        ELSE keys,
               thrown |-> TRUE]

\* the "error" listener registered on the client by initialize
RedisOnError(h) == [h EXCEPT !.errors = @ + 1]

RedisGetStatus(h) ==
    [name |-> h.name, healthy |-> TRUE, lastProcessed |-> 0,
     totalProcessed |-> 0, errors |-> 0, connected |-> "yes",
     diagnostic |-> FALSE]

RedisCleanup(h) == [h |-> h, thrown |-> FALSE]

\* ---------------------------------------------------- file.handler.ts
\* FileHandler.initialize; mkdirOk is whether fs.mkdir resolves
FileInitialize(h, mkdirOk) == [h |-> h, thrown |-> ~mkdirOk]

\* variant: fs.writeFile in place of fs.appendFile
FileMessageHandlerOverwrite(h, lines, m, appendOk) ==
    LET logEntry == [topic |-> m.topic, text |-> JSONStringify(m.value)] IN
    IF appendOk
    THEN [h |-> h, lines |-> <<logEntry>>, thrown |-> FALSE]
    ELSE [h |-> h, lines |-> lines, thrown |-> TRUE]

\* FileHandler.messageHandler; appendOk is whether fs.appendFile resolves
FileMessageHandler(h, lines, m, appendOk) ==
    LET logEntry == [topic |-> m.topic, text |-> JSONStringify(m.value)] IN
    IF appendOk
    THEN [h |-> h, lines |-> Append(lines, logEntry), thrown |-> FALSE]
    ELSE [h |-> h, lines |-> lines, thrown |-> TRUE]

\* FileHandler.getStatus; statOk is whether fs.stat resolves
FileGetStatus(h, statOk) ==
    [getBaseStatus(h) EXCEPT !.diagnostic = ~statOk]

FileCleanup(h) == [h |-> h, thrown |-> FALSE]

\* --------------------------------------------------- flink.handler.ts
\* FlinkHandler.initialize: a failed connection test is logged, not thrown
FlinkInitialize(h, reachable) == [h |-> h, thrown |-> FALSE]

FlinkMessageHandler(h, m) == [h |-> h, thrown |-> FALSE]

\* variant: the base status with only the details changed
FlinkGetStatusBase(h, reachable) ==
    [getBaseStatus(h) EXCEPT !.connected = IF reachable THEN "yes" ELSE "no",
                             !.diagnostic = ~reachable]

\* FlinkHandler.getStatus; reachable is whether the JobManager answers
FlinkGetStatus(h, reachable) ==
    IF reachable
    THEN [getBaseStatus(h) EXCEPT !.healthy = TRUE, !.connected = "yes"]
    ELSE [getBaseStatus(h) EXCEPT !.healthy = FALSE, !.lastProcessed = 0,
                                  !.connected = "no", !.diagnostic = TRUE]

FlinkCleanup(h) == [h |-> h, thrown |-> FALSE]

\* BaseMessageHandler.safeProcessSingle (inherited by all but SqlHandler):
\* it logs the message
BaseSafeProcessSingle(h, m) == [h |-> h, thrown |-> FALSE]

\* ------------------------------------------- dynamic dispatch on h.cls
\* what the environment decides for one call: whether the sink call
\* succeeds, and for Redis which of the three writes get through
SinkEnv == {[ok |-> TRUE, written |-> RedisWrites],
            [ok |-> FALSE, written |-> {}],
            [ok |-> FALSE, written |-> {"user"}]}

Sinks == [rows |-> sqlRows, lines |-> fileLines, docs |-> esDocs,
          keys |-> redisKeys]

\* the dispatch counter used as the time of a call
Now(h) == h.totalProcessed + h.errors + 1

\* handler.initialize()
CallInitialize(h, res) ==
    CASE h.cls = "FileHandler" -> FileInitialize(h, res = "ok")
      [] h.cls = "SqlHandler" -> SqlInitialize(h, res)
      [] h.cls = "ElasticHandler" -> ElasticInitialize(h)
      [] h.cls = "FlinkHandler" -> FlinkInitialize(h, res = "ok")
      [] OTHER -> RedisInitialize(h, res = "ok")

\* handler.messageHandler(m); SqlHandler defines no such method, so the
\* call throws a TypeError
CallMessageHandler(h, S, m, e) ==
    CASE h.cls = "FileHandler" ->
           LET r == FileMessageHandler(h, S.lines, m, e.ok)
           IN [h |-> r.h, S |-> [S EXCEPT !.lines = r.lines], thrown |-> r.thrown]
      [] h.cls = "ElasticHandler" ->
           LET r == ElasticMessageHandler(h, S.docs, m, e.ok, Now(h))
           IN [h |-> r.h, S |-> [S EXCEPT !.docs = r.docs], thrown |-> r.thrown]
      [] h.cls = "RedisHandler" ->
           LET r == RedisMessageHandler(h, S.keys, m, e.written)
           IN [h |-> r.h, S |-> [S EXCEPT !.keys = r.keys], thrown |-> r.thrown]
      [] h.cls = "FlinkHandler" ->
           LET r == FlinkMessageHandler(h, m)
           IN [h |-> r.h, S |-> S, thrown |-> r.thrown]
      [] OTHER ->
           [h |-> h, S |-> S, thrown |-> TRUE]

\* handler.safeProcessSingle(m)
CallSafeProcessSingle(h, S, m, e) ==
    IF h.cls = "SqlHandler"
    THEN LET r == SqlSafeProcessSingle(h, S.rows, m, e.ok)
         IN [h |-> r.h, S |-> [S EXCEPT !.rows = r.rows], thrown |-> r.thrown,
             changes |-> r.changes]
    ELSE LET r == BaseSafeProcessSingle(h, m)
         IN [h |-> r.h, S |-> S, thrown |-> r.thrown, changes |-> 0]

\* handler.getStatus(); ok is whether the store answers the status probe
CallGetStatus(h, S, ok) ==
    CASE h.cls = "FileHandler" -> FileGetStatus(h, ok)
      [] h.cls = "SqlHandler" -> SqlGetStatus(h, S.rows, ok)
      [] h.cls = "ElasticHandler" -> ElasticGetStatus(h)
      [] h.cls = "FlinkHandler" -> FlinkGetStatus(h, ok)
      [] OTHER -> RedisGetStatus(h)

\* handler.cleanup()
CallCleanup(h) ==
    CASE h.cls = "FileHandler" -> FileCleanup(h)
      [] h.cls = "SqlHandler" -> SqlCleanup(h)
      [] h.cls = "ElasticHandler" -> ElasticCleanup(h)
      [] h.cls = "FlinkHandler" -> FlinkCleanup(h)
      [] OTHER -> RedisCleanup(h)

\* variant: the returned function catches and logs what the adapter throws
HandlerFnCatch(h, S, m, e) ==
    [CallMessageHandler(h, S, m, e) EXCEPT !.thrown = FALSE]

\* variant: the adapter is called without await, so the function resolves
\* before the sink write has happened
HandlerFnNoAwait(h, S, m, e) == [h |-> h, S |-> S, thrown |-> FALSE]

\* the function createMessageHandler returns: await handler.messageHandler(m)
HandlerFn(h, S, m, e) == CallMessageHandler(h, S, m, e)

\* whether the handler holds what a dispatch needs
Ready(h) ==
    CASE h.cls = "SqlHandler" -> h.insertStmt
      [] h.cls \in {"ElasticHandler", "RedisHandler"} -> h.conn = "open"
      [] OTHER -> TRUE

\* ===================================================================
\* SpecHandler: one handler object, constructed by getHandler and then
\* driven through initialize, the function of createMessageHandler,
\* getStatus and cleanup, in any order
\* ===================================================================
NoStatus == [name |-> "none", healthy |-> FALSE, lastProcessed |-> 0,
             totalProcessed |-> 0, errors |-> 0, connected |-> "n/a",
             diagnostic |-> FALSE]

NoMessage == [topic |-> "none", partition |-> 0, offset |-> "", value |-> ""]

\* the record of a call: the method, whether it threw (rejected), and for
\* a dispatch what it was given: a ready handler, a malformed value, a
\* sink that accepts the write
Call(op, thrown, status) ==
    [op |-> op, thrown |-> thrown, status |-> status,
     ready |-> TRUE, malformed |-> FALSE, sinkOk |-> TRUE, changes |-> 0,
     available |-> {}]

DispatchCall(op, thrown, ready, malformed, sinkOk, changes) ==
    [op |-> op, thrown |-> thrown, status |-> NoStatus,
     ready |-> ready, malformed |-> malformed, sinkOk |-> sinkOk,
     changes |-> changes, available |-> {}]

\* KafkaConsumerService after its constructor: the kafkajs consumer is not
\* connected, has no subscription and no run loop; no handler registered
NewConsumer == [connected |-> FALSE, subscribed |-> FALSE,
                registered |-> FALSE, isRunning |-> FALSE,
                clientRunning |-> FALSE]

DeliveryZero == [startupRan |-> FALSE, initCalls |-> 0, initRes |-> "none",
                 delivered |-> 0,
                 handlerCalls |-> 0, caught |-> 0, escaped |-> 0,
                 cleanupCalls |-> 0]

\* the process part of the state while a handler is driven directly
ProcessIdle ==
    /\ pc = "harness"
    /\ exitCode = -1
    /\ messageHandler = "null"
    /\ consumer = NewConsumer
    /\ inflight = NoMessage
    /\ shutdown = 0
    /\ delivery = DeliveryZero

SinksEmpty ==
    /\ sqlRows = {}
    /\ fileLines = <<>>
    /\ esDocs = {}
    /\ redisKeys = {}

HistZero == [well |-> 0, malformed |-> 0, faulted |-> FALSE, clientErrors |-> 0,
             triples |-> {}]

\* one name per handler class ("sql" and "elastic" construct the same
\* objects as "sqlite" and "elasticsearch")
HarnessTypes == {"file", "sqlite", "elasticsearch", "flink", "redis"}

InitHandler ==
    /\ handlerType \in HarnessTypes
    /\ envTable \in IF handlerType = "sqlite" THEN TableNameEnv ELSE {""}
    /\ handler = getHandler(handlerType, envTable).h
    /\ SinksEmpty
    /\ lastCall = Call("construct", FALSE, NoStatus)
    /\ hist = HistZero
    /\ ProcessIdle

SetSinks(S) ==
    /\ sqlRows' = S.rows
    /\ fileLines' = S.lines
    /\ esDocs' = S.docs
    /\ redisKeys' = S.keys

\* handler.initialize()
Initialize(res) ==
    LET r == CallInitialize(handler, res) IN
    /\ handler' = r.h
    /\ lastCall' = Call("initialize", r.thrown, NoStatus)
    /\ UNCHANGED <<envTable, handlerType, sqlRows, fileLines, esDocs,
                   redisKeys, hist>>
    /\ UNCHANGED pvars

\* messages dispatched through the handler function
HandlerMessages ==
    {m \in RawKafkaMessage :
        m.topic = "user-events" /\ m.partition = 0 /\ m.offset = "42"}

Malformed(m) == ~JSONParse(m.value).ok

\* the effect of one call of the function returned by createMessageHandler
HandlerFnCall(m, e) ==
    LET r == HandlerFn(handler, Sinks, m, e) IN
    /\ hist.well + hist.malformed < MaxDispatch
    /\ handler.cls = "FileHandler" /\ e.ok => Len(fileLines) < MaxLines
    /\ handler' = r.h
    /\ SetSinks(r.S)
    /\ lastCall' = DispatchCall("handlerFn", r.thrown, Ready(handler),
                                Malformed(m), e.ok, 0)
    /\ hist' = [hist EXCEPT
                  !.well = IF Malformed(m) THEN @ ELSE @ + 1,
                  !.malformed = IF Malformed(m) THEN @ + 1 ELSE @,
                  !.faulted = @ \/ ~e.ok \/ ~Ready(handler)]
    /\ UNCHANGED <<envTable, handlerType>>

\* one call of the function returned by createMessageHandler
Dispatch(m, e) ==
    /\ HandlerFnCall(m, e)
    /\ UNCHANGED pvars

\* handler.getStatus()
GetStatus(ok) ==
    /\ lastCall' = Call("getStatus", FALSE, CallGetStatus(handler, Sinks, ok))
    /\ UNCHANGED <<envTable, handlerType, handler, sqlRows, fileLines, esDocs,
                   redisKeys, hist>>
    /\ UNCHANGED pvars

\* handler.cleanup()
Cleanup ==
    LET r == CallCleanup(handler) IN
    /\ handler' = r.h
    /\ lastCall' = Call("cleanup", r.thrown, NoStatus)
    /\ UNCHANGED <<envTable, handlerType, sqlRows, fileLines, esDocs,
                   redisKeys, hist>>
    /\ UNCHANGED pvars

\* the Redis client emits "error"
RedisClientError ==
    /\ handler.cls = "RedisHandler"
    /\ handler.conn # "none"
    /\ hist.clientErrors < MaxClientErrors
    /\ handler' = RedisOnError(handler)
    /\ lastCall' = Call("onError", FALSE, NoStatus)
    /\ hist' = [hist EXCEPT !.faulted = TRUE, !.clientErrors = @ + 1]
    /\ UNCHANGED <<envTable, handlerType, sqlRows, fileLines, esDocs, redisKeys>>
    /\ UNCHANGED pvars

InitResults == {"ok", "failOpen", "failPrepare"}

NextHandler ==
    \/ \E res \in InitResults : Initialize(res)
    \/ \E m \in HandlerMessages, e \in SinkEnv : Dispatch(m, e)
    \/ \E ok \in BOOLEAN : GetStatus(ok)
    \/ Cleanup
    \/ RedisClientError

SpecHandler == InitHandler /\ [][NextHandler]_vars

\* ===================================================================
\* SpecDirect: one handler object driven through initialize,
\* safeProcessSingle, getStatus and cleanup, in any order
\* ===================================================================
DirectMessages == {m \in RawKafkaMessage : m.value \in {VJsonA, VText}}

DirectEnv == {e \in SinkEnv : e.written \in {{}, RedisWrites}}

Triple(m) == [topic |-> m.topic, partition |-> m.partition, offset |-> m.offset]

HasRow(rows, m) == \E r \in rows : SameKey(r, m.topic, m.partition, m.offset)

\* handler.safeProcessSingle(m)
SafeProcessSingle(m, e) ==
    LET r == CallSafeProcessSingle(handler, Sinks, m, e) IN
    /\ handler.cls = "SqlHandler" =>
          Cardinality(sqlRows) < MaxRows \/ HasRow(sqlRows, m)
    /\ handler' = r.h
    /\ SetSinks(r.S)
    /\ lastCall' = DispatchCall("safeProcessSingle", r.thrown, Ready(handler),
                                Malformed(m), e.ok, r.changes)
    /\ hist' = IF handler.cls = "SqlHandler" /\ ~r.thrown
               THEN [hist EXCEPT !.triples = @ \cup {Triple(m)}]
               ELSE hist
    /\ UNCHANGED <<envTable, handlerType>>
    /\ UNCHANGED pvars

NextDirect ==
    \/ \E res \in InitResults : Initialize(res)
    \/ \E m \in DirectMessages, e \in DirectEnv : SafeProcessSingle(m, e)
    \/ \E ok \in BOOLEAN : GetStatus(ok)
    \/ Cleanup

SpecDirect == InitHandler /\ [][NextDirect]_vars

\* ===================================================================
\* SpecIndex: one handler object driven through initialize, the function
\* of createMessageHandler and cleanup, with messages of differing
\* partitions and offsets, among them one without an offset
\* ===================================================================
IndexMessages ==
    [topic : {"user-events"}, partition : Partitions,
     offset : Offsets \cup {""}, value : {VJsonA, VJsonB, VText}]

DispatchIndex(m, e) ==
    /\ hist.well + hist.malformed < MaxIndexed
    /\ HandlerFnCall(m, e)
    /\ UNCHANGED pvars

NextIndex ==
    \/ \E res \in InitResults : Initialize(res)
    \/ \E m \in IndexMessages, e \in SinkEnv : DispatchIndex(m, e)
    \/ Cleanup

SpecIndex == InitHandler /\ [][NextIndex]_vars

\* ===================================================================
\* Spec: the consumer process (consumer.ts)
\* ===================================================================
\* HANDLER_TYPE = process.env.MESSAGE_HANDLER || "sqlite"
HANDLER_TYPE == OrElse(handlerType, "sqlite")

Init ==
    /\ handlerType \in HandlerTypeEnv
    /\ envTable \in IF HANDLER_TYPE \in {"sql", "sqlite"}
                    THEN TableNameEnv ELSE {""}
    /\ handler = NoHandler
    /\ SinksEmpty
    /\ lastCall = Call("none", FALSE, NoStatus)
    /\ hist = HistZero
    /\ pc = "boot"
    /\ exitCode = -1
    /\ messageHandler = "null"
    /\ consumer = NewConsumer
    /\ inflight = NoMessage
    /\ shutdown = 0
    /\ delivery = DeliveryZero

\* process.exit(code)
Exit(code) ==
    /\ pc' = "exited"
    /\ exitCode' = code

\* initialize() of these classes has no suspension point
SyncInit(cls) == cls \in {"SqlHandler", "ElasticHandler"}

\* initialize() settled inside createMessageHandler: a rejection reaches
\* the catch of startServices, otherwise messageHandler is assigned and
\* startConsumer begins to connect
AfterInitialize(r) ==
    /\ handler' = r.h
    /\ lastCall' = Call("initialize", r.thrown, NoStatus)
    /\ IF r.thrown
       THEN /\ Exit(1)
            /\ UNCHANGED messageHandler
       ELSE /\ pc' = "subscribing"
            /\ messageHandler' = "fn"
            /\ UNCHANGED exitCode

\* startServices up to its first suspension: createMessageHandler calls
\* getHandler and initialize
StartServices(res) ==
    LET g == getHandler(HANDLER_TYPE, envTable) IN
    /\ pc = "boot"
    /\ delivery' = [delivery EXCEPT
                      !.startupRan = TRUE,
                      !.initCalls = IF g.thrown THEN @ ELSE @ + 1,
                      !.initRes = IF ~g.thrown /\ SyncInit(g.h.cls)
                                  THEN res ELSE @]
    /\ IF g.thrown
       THEN /\ Exit(1)
            /\ lastCall' = [Call("getHandler", TRUE, NoStatus) EXCEPT
                               !.available = UnknownHandlerAvailable]
            /\ UNCHANGED <<handler, messageHandler>>
       ELSE IF SyncInit(g.h.cls)
       THEN AfterInitialize(CallInitialize(g.h, res))
       ELSE /\ handler' = g.h
            /\ lastCall' = Call("getHandler", FALSE, NoStatus)
            /\ pc' = "initializing"
            /\ UNCHANGED <<exitCode, messageHandler>>
    /\ UNCHANGED <<envTable, handlerType, sqlRows, fileLines, esDocs,
                   redisKeys, hist, consumer, inflight, shutdown>>

\* the awaited initialize() of FileHandler, FlinkHandler or RedisHandler
\* settles
InitializeSettles(res) ==
    /\ pc = "initializing"
    /\ AfterInitialize(CallInitialize(handler, res))
    /\ delivery' = [delivery EXCEPT !.initRes = res]
    /\ UNCHANGED <<envTable, handlerType, sqlRows, fileLines, esDocs,
                   redisKeys, hist, consumer, inflight, shutdown>>

\* KafkaService.startConsumer: consumer.subscribe (connect, then subscribe
\* each topic) settles; on success the handler is registered and
\* startConsuming calls consumer.run
SubscribeSettles(res) ==
    /\ pc = "subscribing"
    /\ CASE res = "ok" ->
              /\ consumer' = [consumer EXCEPT !.connected = TRUE,
                                              !.subscribed = TRUE,
                                              !.registered = TRUE,
                                              !.clientRunning = TRUE]
              /\ pc' = "runStarting"
              /\ UNCHANGED exitCode
         [] res = "failSubscribe" ->
              /\ consumer' = [consumer EXCEPT !.connected = TRUE]
              /\ Exit(1)
         [] OTHER ->
              /\ UNCHANGED consumer
              /\ Exit(1)
    /\ UNCHANGED <<envTable, handlerType, handler, sqlRows, fileLines, esDocs,
                   redisKeys, lastCall, hist, messageHandler, inflight,
                   shutdown, delivery>>

\* the awaited consumer.run settles and startConsuming sets isRunning
RunSettles ==
    /\ pc = "runStarting"
    /\ consumer' = [consumer EXCEPT !.isRunning = TRUE]
    /\ pc' = "running"
    /\ UNCHANGED <<envTable, handlerType, handler, sqlRows, fileLines, esDocs,
                   redisKeys, lastCall, hist, exitCode, messageHandler,
                   inflight, shutdown, delivery>>

\* messages the broker delivers: the subscription is ["user-events"]
BrokerMessages == {m \in RawKafkaMessage : m.topic = "user-events"}

\* the run loop invokes eachMessage: the handler registered for the topic
\* is looked up and called
EachMessageBegin(m) ==
    /\ pc # "exited"
    /\ consumer.clientRunning
    /\ inflight = NoMessage
    /\ delivery.delivered < MaxDelivered
    /\ inflight' = m
    /\ delivery' = [delivery EXCEPT
                      !.delivered = @ + 1,
                      !.handlerCalls = IF consumer.registered THEN @ + 1 ELSE @]
    /\ UNCHANGED <<envTable, handlerType, handler, sqlRows, fileLines, esDocs,
                   redisKeys, lastCall, hist, pc, exitCode, messageHandler,
                   consumer, shutdown>>

\* variant: eachMessage without its try / catch
EachMessagePropagates(handlerThrown) == handlerThrown

\* whether eachMessage lets an exception of the handler out: the try /
\* catch logs it
EachMessageThrows(handlerThrown) == FALSE

\* variant: a catch block that calls the handler again for the message
EachMessageRetries(m, handlerThrown) == IF handlerThrown THEN m ELSE NoMessage

\* the message eachMessage still works on once the awaited handler call
\* has settled: none, the callback returns after its try / catch
EachMessageRetains(m, handlerThrown) == NoMessage

\* the awaited handler call of eachMessage settles
EachMessageSettle(e) ==
    /\ pc # "exited"
    /\ inflight # NoMessage
    /\ HandlerFnCall(inflight, e)
    /\ inflight' = EachMessageRetains(inflight, lastCall'.thrown)
    /\ LET thrown == lastCall'.thrown
           out == EachMessageThrows(thrown)
       IN /\ delivery' = [delivery EXCEPT
                            !.caught = IF thrown /\ ~out THEN @ + 1 ELSE @,
                            !.escaped = IF out THEN @ + 1 ELSE @]
          /\ consumer' = IF out
                         THEN [consumer EXCEPT !.clientRunning = FALSE]
                         ELSE consumer
    /\ UNCHANGED <<pc, exitCode, messageHandler, shutdown>>

\* messageHandler && typeof messageHandler.cleanup === "function":
\* null is falsy, and the function createMessageHandler returns has no
\* cleanup property
CleanupCallable(mh) == mh \notin {"null", "fn"}

\* the rest of a signal listener after its awaited disconnect: cleanup()
\* of messageHandler if it has one, then process.exit(0); a rejected
\* cleanup() leaves the listener with an unhandled rejection
ListenerTail ==
    IF CleanupCallable(messageHandler)
    THEN LET r == CallCleanup(handler) IN
         /\ handler' = r.h
         /\ lastCall' = Call("cleanup", r.thrown, NoStatus)
         /\ delivery' = [delivery EXCEPT !.cleanupCalls = @ + 1]
         /\ Exit(IF r.thrown THEN 1 ELSE 0)
    ELSE /\ UNCHANGED <<handler, lastCall, delivery>>
         /\ Exit(0)

\* SIGINT or SIGTERM: the listener calls kafkaServiceConsumer.disconnect();
\* stop() awaits the kafkajs disconnect only if isRunning, otherwise the
\* listener runs through to its end.
Signal ==
    /\ pc # "exited"
    /\ shutdown < MaxSignals
    /\ IF consumer.isRunning
       THEN /\ shutdown' = shutdown + 1
            /\ UNCHANGED <<pc, exitCode, handler, lastCall, delivery>>
       ELSE /\ ListenerTail
            /\ UNCHANGED shutdown
    /\ UNCHANGED <<envTable, handlerType, sqlRows, fileLines, esDocs,
                   redisKeys, hist, messageHandler, consumer, inflight>>

\* the awaited kafkajs disconnect of a signal listener settles: isRunning
\* is cleared and the listener runs through to its end
ShutdownSettles ==
    /\ pc # "exited"
    /\ shutdown > 0
    /\ consumer' = [consumer EXCEPT !.connected = FALSE,
                                    !.clientRunning = FALSE,
                                    !.isRunning = FALSE]
    /\ ListenerTail
    /\ UNCHANGED <<envTable, handlerType, sqlRows, fileLines, esDocs,
                   redisKeys, hist, messageHandler, inflight, shutdown>>

SubscribeResults == {"ok", "failConnect", "failSubscribe"}

Next ==
    \/ \E res \in InitResults : StartServices(res)
    \/ \E res \in InitResults : InitializeSettles(res)
    \/ \E res \in SubscribeResults : SubscribeSettles(res)
    \/ RunSettles
    \/ \E m \in BrokerMessages : EachMessageBegin(m)
    \/ \E e \in SinkEnv : EachMessageSettle(e)
    \/ Signal
    \/ ShutdownSettles

Spec == Init /\ [][Next]_vars

\* ===================================================================
\* SpecLoop: the run loop of the broker client calling the eachMessage
\* callback of a consumer service (KafkaConsumerService or LogConsumer)
\* ===================================================================
ConsumerClasses == {"KafkaConsumerService", "LogConsumer"}

\* variant: every consumer.run call carries partitionsConsumedConcurrently: 3
PartitionsConsumedConcurrentlyThree(cls) == 3

\* the partitionsConsumedConcurrently of the consumer.run call: 3 in
\* LogConsumer.startConsuming, not given (the client's default of 1) in
\* KafkaConsumerService.startConsuming
PartitionsConsumedConcurrently(cls) ==
    IF cls = "LogConsumer" THEN 3 ELSE 1

\* a consumer service whose run loop has started; running is the set of
\* messages whose eachMessage callback has not settled
RunningConsumer(cls) ==
    [cls |-> cls, connected |-> TRUE, subscribed |-> TRUE,
     registered |-> TRUE, isRunning |-> TRUE, clientRunning |-> TRUE,
     running |-> {}]

\* messages of three partitions of the subscribed topic
LoopMessages ==
    [topic : {"user-events"}, partition : Partitions \cup {2},
     offset : Offsets, value : {VJsonA}]

InitLoop ==
    /\ handlerType = ""
    /\ envTable = ""
    /\ handler = NoHandler
    /\ SinksEmpty
    /\ lastCall = Call("none", FALSE, NoStatus)
    /\ hist = HistZero
    /\ pc = "running"
    /\ exitCode = -1
    /\ messageHandler = "fn"
    /\ consumer \in {RunningConsumer(cls) : cls \in ConsumerClasses}
    /\ inflight = NoMessage
    /\ shutdown = 0
    /\ delivery = DeliveryZero

\* the run loop calls eachMessage for the next message of a partition: it
\* works on at most partitionsConsumedConcurrently partitions at a time
\* and on each of them one message at a time
LoopBegin(m) ==
    /\ delivery.delivered < MaxDelivered
    /\ Cardinality(consumer.running)
          < PartitionsConsumedConcurrently(consumer.cls)
    /\ \A x \in consumer.running : x.partition # m.partition
    /\ consumer' = [consumer EXCEPT !.running = @ \cup {m}]
    /\ delivery' = [delivery EXCEPT !.delivered = @ + 1,
                                    !.handlerCalls = @ + 1]
    /\ UNCHANGED hvars
    /\ UNCHANGED <<pc, exitCode, messageHandler, inflight, shutdown>>

\* an eachMessage callback settles; both callbacks catch what the
\* processing throws
LoopSettle(m, thrown) ==
    /\ m \in consumer.running
    /\ consumer' = [consumer EXCEPT !.running = @ \ {m}]
    /\ delivery' = [delivery EXCEPT !.caught = IF thrown THEN @ + 1 ELSE @]
    /\ UNCHANGED hvars
    /\ UNCHANGED <<pc, exitCode, messageHandler, inflight, shutdown>>

NextLoop ==
    \/ \E m \in LoopMessages : LoopBegin(m)
    \/ \E m \in LoopMessages, thrown \in BOOLEAN : LoopSettle(m, thrown)

SpecLoop == InitLoop /\ [][NextLoop]_vars

\* ===================================================================
\* SpecOverlap: a FileHandler whose messageHandler is called by a caller
\* that does not wait for the previous call to settle (as a run loop
\* working on several partitions does)
\* ===================================================================
\* the calls that are inside fs.appendFile: messageHandler reaches its
\* await fs.appendFile without waiting for anything, so every call that
\* has not settled is appending
FileAppending(running) == running

\* messages of two partitions whose lines differ
OverlapMessages ==
    [topic : {"user-events"}, partition : Partitions, offset : Offsets,
     value : {VJsonA, VText}]

InitOverlap ==
    /\ handlerType = "file"
    /\ envTable = ""
    /\ handler = getHandler(handlerType, envTable).h
    /\ SinksEmpty
    /\ lastCall = Call("initialize", FALSE, NoStatus)
    /\ hist = HistZero
    /\ pc = "running"
    /\ exitCode = -1
    /\ messageHandler = "fn"
    /\ consumer = RunningConsumer("caller")
    /\ inflight = NoMessage
    /\ shutdown = 0
    /\ delivery = DeliveryZero

\* FileHandler.messageHandler up to its await: the line is built and
\* fs.appendFile is called
FileCallBegin(m) ==
    /\ delivery.delivered < MaxDelivered
    /\ Cardinality(consumer.running) < MaxOverlap
    /\ m \notin consumer.running
    /\ consumer' = [consumer EXCEPT !.running = @ \cup {m}]
    /\ delivery' = [delivery EXCEPT !.delivered = @ + 1,
                                    !.handlerCalls = @ + 1]
    /\ UNCHANGED hvars
    /\ UNCHANGED <<pc, exitCode, messageHandler, inflight, shutdown>>

\* the fs.appendFile of a call settles and the call returns or rejects
FileCallSettle(m, appendOk) ==
    LET r == FileMessageHandler(handler, fileLines, m, appendOk) IN
    /\ m \in consumer.running
    /\ consumer' = [consumer EXCEPT !.running = @ \ {m}]
    /\ handler' = r.h
    /\ fileLines' = r.lines
    /\ lastCall' = DispatchCall("handlerFn", r.thrown, TRUE, Malformed(m),
                                appendOk, 0)
    /\ delivery' = [delivery EXCEPT !.caught = IF r.thrown THEN @ + 1 ELSE @]
    /\ UNCHANGED <<envTable, handlerType, sqlRows, esDocs, redisKeys, hist>>
    /\ UNCHANGED <<pc, exitCode, messageHandler, inflight, shutdown>>

NextOverlap ==
    \/ \E m \in OverlapMessages : FileCallBegin(m)
    \/ \E m \in OverlapMessages, ok \in BOOLEAN : FileCallSettle(m, ok)

SpecOverlap == InitOverlap /\ [][NextOverlap]_vars

\* ===================================================================
\* SpecDeliver: a KafkaConsumerService with its messageHandlers map, given
\* the messages of the broker client (key, value and headers included)
\* ===================================================================
\* a Buffer holding a text, and null in place of a Buffer
Buf(t) == [isNull |-> FALSE, text |-> t]
BufNull == [isNull |-> TRUE, text |-> ""]
JsUndefined == "<undefined>"

DeliverTopics == {"user-events", "audit-log"}

\* the message objects the broker client hands to eachMessage: key and
\* value are a Buffer or null, headers an object or undefined ("")
BrokerDeliveries ==
    [topic : DeliverTopics, partition : {0}, offset : Offsets,
     key : {BufNull, Buf("k1")}, value : {BufNull, Buf(VJsonA)},
     headers : {"", "{trace:1}"}]

NoDelivery ==
    [topic |-> "", partition |-> 0, offset |-> "", key |-> BufNull,
     value |-> BufNull, headers |-> ""]

\* eachMessage: the messageData object built from the delivery;
\* message.value.toString() is a TypeError when the value is null
MessageData(topic, partition, message) ==
    IF message.value.isNull
    THEN [thrown |-> TRUE, topic |-> topic, partition |-> partition,
          offset |-> message.offset, key |-> JsUndefined, value |-> "",
          headers |-> ""]
    ELSE [thrown |-> FALSE, topic |-> topic, partition |-> partition,
          offset |-> message.offset,
          key |-> IF message.key.isNull THEN JsUndefined
                  ELSE message.key.text,
          value |-> message.value.text,
          headers |-> OrElse(message.headers, "{}")]

\* a call of a registered handler function with its argument
HandlerCall(messageData) ==
    [op |-> "handler", thrown |-> FALSE, args |-> messageData]

\* starting: startConsuming calls awaiting consumer.run; runCalls: calls
\* of consumer.run made since the last stop; startCalls: startConsuming
\* calls made so far
DeliverConsumer(topics, running) ==
    [cls |-> "KafkaConsumerService", messageHandlers |-> topics,
     isRunning |-> running, lastDelivered |-> NoDelivery,
     starting |-> 0, runCalls |-> 0, startCalls |-> 0]

InitDeliver ==
    /\ handlerType = ""
    /\ envTable = ""
    /\ handler = NoHandler
    /\ SinksEmpty
    /\ lastCall = [op |-> "none", thrown |-> FALSE, args |-> NoDelivery]
    /\ hist = HistZero
    /\ pc = "running"
    /\ exitCode = -1
    /\ messageHandler = "fn"
    /\ consumer = DeliverConsumer({}, FALSE)
    /\ inflight = NoMessage
    /\ shutdown = 0
    /\ delivery = DeliveryZero

\* KafkaConsumerService.registerHandler
RegisterHandler(topic) ==
    /\ topic \notin consumer.messageHandlers
    /\ consumer' = [consumer EXCEPT !.messageHandlers = @ \cup {topic}]
    /\ UNCHANGED hvars
    /\ UNCHANGED <<pc, exitCode, messageHandler, inflight, shutdown,
                   delivery>>

\* KafkaConsumerService.startConsuming up to its await: the isRunning
\* check, then the call of consumer.run
StartConsumingCall ==
    /\ consumer.startCalls < MaxStarts
    /\ IF consumer.isRunning
       THEN \* Error("Consumer is already running")
            /\ consumer' = [consumer EXCEPT !.startCalls = @ + 1]
            /\ lastCall' = [op |-> "startConsuming", thrown |-> TRUE,
                            args |-> NoDelivery]
       ELSE /\ consumer' = [consumer EXCEPT !.startCalls = @ + 1,
                                            !.runCalls = @ + 1,
                                            !.starting = @ + 1]
            /\ lastCall' = [op |-> "startConsuming", thrown |-> FALSE,
                            args |-> NoDelivery]
    /\ UNCHANGED <<envTable, handlerType, handler, sqlRows, fileLines,
                   esDocs, redisKeys, hist>>
    /\ UNCHANGED <<pc, exitCode, messageHandler, inflight, shutdown,
                   delivery>>

\* the awaited consumer.run of a startConsuming call resolves: isRunning
\* is set
StartConsumingSettles ==
    /\ consumer.starting > 0
    /\ consumer' = [consumer EXCEPT !.starting = @ - 1, !.isRunning = TRUE]
    /\ UNCHANGED hvars
    /\ UNCHANGED <<pc, exitCode, messageHandler, inflight, shutdown,
                   delivery>>

\* KafkaConsumerService.stop on a running service: the client is
\* disconnected and isRunning cleared
StopConsuming ==
    /\ consumer.isRunning
    /\ consumer.starting = 0
    /\ inflight = NoMessage
    /\ consumer' = [consumer EXCEPT !.isRunning = FALSE, !.runCalls = 0]
    /\ UNCHANGED hvars
    /\ UNCHANGED <<pc, exitCode, messageHandler, inflight, shutdown,
                   delivery>>

\* the eachMessage callback up to its await (or to its end, when it has
\* none): the run loop calls it for one message at a time
EachMessageDeliver(bm) ==
    LET messageData == MessageData(bm.topic, bm.partition, bm)
        registered == bm.topic \in consumer.messageHandlers
    IN
    /\ consumer.isRunning
    /\ inflight = NoMessage
    /\ delivery.delivered < MaxDelivered
    /\ consumer' = [consumer EXCEPT !.lastDelivered = bm]
    /\ IF messageData.thrown
       THEN \* caught by the callback's own try/catch and logged
            /\ delivery' = [delivery EXCEPT !.delivered = @ + 1,
                                            !.caught = @ + 1]
            /\ UNCHANGED <<lastCall, inflight>>
       ELSE IF registered
       THEN /\ delivery' = [delivery EXCEPT !.delivered = @ + 1,
                                            !.handlerCalls = @ + 1]
            /\ lastCall' = HandlerCall(messageData)
            /\ inflight' = [topic |-> bm.topic, partition |-> bm.partition,
                            offset |-> bm.offset, value |-> messageData.value]
       ELSE \* "No handler for topic" is logged
            /\ delivery' = [delivery EXCEPT !.delivered = @ + 1]
            /\ UNCHANGED <<lastCall, inflight>>
    /\ UNCHANGED <<envTable, handlerType, handler, sqlRows, fileLines,
                   esDocs, redisKeys, hist>>
    /\ UNCHANGED <<pc, exitCode, messageHandler, shutdown>>

\* the awaited handler call settles; a rejection is caught and logged
EachMessageHandlerSettles(thrown) ==
    /\ inflight # NoMessage
    /\ inflight' = NoMessage
    /\ lastCall' = [lastCall EXCEPT !.thrown = thrown]
    /\ delivery' = [delivery EXCEPT !.caught = IF thrown THEN @ + 1 ELSE @]
    /\ UNCHANGED <<envTable, handlerType, handler, sqlRows, fileLines,
                   esDocs, redisKeys, hist>>
    /\ UNCHANGED <<pc, exitCode, messageHandler, consumer, shutdown>>

NextDeliver ==
    \/ \E t \in DeliverTopics : RegisterHandler(t)
    \/ StartConsumingCall
    \/ StartConsumingSettles
    \/ StopConsuming
    \/ \E bm \in BrokerDeliveries : EachMessageDeliver(bm)
    \/ \E thrown \in BOOLEAN : EachMessageHandlerSettles(thrown)

SpecDeliver == InitDeliver /\ [][NextDeliver]_vars

\* ===================================================================
\* SpecElastic: one ElasticHandler given messages of differing topics,
\* partitions and offsets; hist.triples is the sequence of the messages
\* whose dispatch succeeded
\* ===================================================================
ElasticMessages ==
    [topic : Topics, partition : Partitions, offset : Offsets,
     value : {VJsonA, VText}]

InitElastic ==
    /\ handlerType \in {"elastic", "elasticsearch"}
    /\ envTable = ""
    /\ handler = getHandler(handlerType, envTable).h
    /\ SinksEmpty
    /\ lastCall = Call("construct", FALSE, NoStatus)
    /\ hist = [HistZero EXCEPT !.triples = <<>>]
    /\ ProcessIdle

\* one call of the function returned by createMessageHandler
DispatchElastic(m, e) ==
    LET r == HandlerFn(handler, Sinks, m, e) IN
    /\ hist.well + hist.malformed < MaxIndexed
    /\ handler' = r.h
    /\ SetSinks(r.S)
    /\ lastCall' = DispatchCall("handlerFn", r.thrown, Ready(handler),
                                Malformed(m), e.ok, 0)
    /\ hist' = [hist EXCEPT
                  !.well = IF Malformed(m) THEN @ ELSE @ + 1,
                  !.malformed = IF Malformed(m) THEN @ + 1 ELSE @,
                  !.faulted = @ \/ ~e.ok \/ ~Ready(handler),
                  !.triples = IF r.thrown THEN @ ELSE Append(@, m)]
    /\ UNCHANGED <<envTable, handlerType>>
    /\ UNCHANGED pvars

NextElastic ==
    \/ \E res \in InitResults : Initialize(res)
    \/ \E m \in ElasticMessages, e \in DirectEnv : DispatchElastic(m, e)
    \/ Cleanup

SpecElastic == InitElastic /\ [][NextElastic]_vars

\* ===================================================================
\* SpecProducer: one KafkaProducerService (utils/kafka) whose sendMessage,
\* sendBatch, sendMetric and disconnect are called without waiting for
\* earlier calls to settle
\* ===================================================================
SendKinds == {"sendMessage", "sendBatch", "sendMetric"}

\* isConnected: the field; calls: calls made on the service; connecting:
\* connect() calls awaiting producer.connect; connectCalls: calls of
\* producer.connect since the last disconnect; sending: calls awaiting
\* producer.send; disconnecting: disconnect() calls awaiting
\* producer.disconnect; disconnectCalls: calls of producer.disconnect
NewProducer ==
    [cls |-> "KafkaProducerService", isConnected |-> FALSE, calls |-> 0,
     connecting |-> 0, connectCalls |-> 0, sending |-> 0,
     disconnecting |-> 0, disconnectCalls |-> 0]

ProducerCall(op, thrown) == [op |-> op, thrown |-> thrown, args |-> NoDelivery]

InitProducer ==
    /\ handlerType = ""
    /\ envTable = ""
    /\ handler = NoHandler
    /\ SinksEmpty
    /\ lastCall = ProducerCall("none", FALSE)
    /\ hist = HistZero
    /\ pc = "harness"
    /\ exitCode = -1
    /\ messageHandler = "null"
    /\ consumer = NewProducer
    /\ inflight = NoMessage
    /\ shutdown = 0
    /\ delivery = DeliveryZero

ProducerFrame ==
    /\ UNCHANGED <<envTable, handlerType, handler, sqlRows, fileLines,
                   esDocs, redisKeys, hist>>
    /\ UNCHANGED <<pc, exitCode, messageHandler, inflight, shutdown,
                   delivery>>

\* sendMessage / sendBatch / sendMetric up to the first await that waits
\* for the client: connect() calls producer.connect() unless isConnected,
\* otherwise the call goes on to producer.send
ProducerSendCall(kind) ==
    /\ consumer.calls < MaxProducerCalls
    /\ IF consumer.isConnected
       THEN consumer' = [consumer EXCEPT !.calls = @ + 1, !.sending = @ + 1]
       ELSE consumer' = [consumer EXCEPT !.calls = @ + 1,
                                         !.connecting = @ + 1,
                                         !.connectCalls = @ + 1]
    /\ lastCall' = ProducerCall(kind, FALSE)
    /\ ProducerFrame

\* an awaited producer.connect() settles: on success isConnected is set
\* and the call goes on to producer.send, on failure the call rejects
ProducerConnectSettles(ok) ==
    /\ consumer.connecting > 0
    /\ IF ok
       THEN consumer' = [consumer EXCEPT !.connecting = @ - 1,
                                         !.isConnected = TRUE,
                                         !.sending = @ + 1]
       ELSE consumer' = [consumer EXCEPT !.connecting = @ - 1]
    /\ lastCall' = ProducerCall("connect", ~ok)
    /\ ProducerFrame

\* an awaited producer.send settles
ProducerSendSettles(ok) ==
    /\ consumer.sending > 0
    /\ consumer' = [consumer EXCEPT !.sending = @ - 1]
    /\ lastCall' = ProducerCall("send", ~ok)
    /\ ProducerFrame

\* disconnect() up to its await: producer.disconnect() is called only if
\* isConnected
ProducerDisconnectCall ==
    /\ consumer.calls < MaxProducerCalls
    /\ IF consumer.isConnected
       THEN consumer' = [consumer EXCEPT !.calls = @ + 1,
                                         !.disconnecting = @ + 1,
                                         !.disconnectCalls = @ + 1]
       ELSE consumer' = [consumer EXCEPT !.calls = @ + 1]
    /\ lastCall' = ProducerCall("disconnect", FALSE)
    /\ ProducerFrame

\* the awaited producer.disconnect() resolves: isConnected is cleared
ProducerDisconnectSettles ==
    /\ consumer.disconnecting > 0
    /\ consumer' = [consumer EXCEPT !.disconnecting = @ - 1,
                                    !.isConnected = FALSE,
                                    !.connectCalls = 0]
    /\ lastCall' = ProducerCall("disconnected", FALSE)
    /\ ProducerFrame

NextProducer ==
    \/ \E kind \in SendKinds : ProducerSendCall(kind)
    \/ \E ok \in BOOLEAN : ProducerConnectSettles(ok)
    \/ \E ok \in BOOLEAN : ProducerSendSettles(ok)
    \/ ProducerDisconnectCall
    \/ ProducerDisconnectSettles

SpecProducer == InitProducer /\ [][NextProducer]_vars

\* ===================================================================
\* SpecRetry: one call of KafkaProducerService.sendWithRetry
\* (features/producer); the awaited connect/send of an attempt and the
\* timer of a backoff always settle, hence the fairness condition
\* ===================================================================
\* errors an attempt can fail with (connect or send)
SendErrors == {"connect refused", "request timed out",
               "leader not available", "not serializable"}

BackoffBaseMs == 100

\* Math.pow(2, attempt) * 100
BackoffDelay(attempt) == (2 ^ attempt) * BackoffBaseMs

\* the loop condition attempt <= maxRetries
RetryLoopContinues(attempt, maxRetries) == attempt <= maxRetries

\* variant: the backoff is awaited after every failed attempt
RetryWaitsAlways(attempt, maxRetries) == TRUE

\* if (attempt < maxRetries): whether a backoff follows a failed attempt
RetryWaits(attempt, maxRetries) == attempt < maxRetries

\* the call: phase is "called", "attempt" (connect/send awaited), "waiting"
\* (backoff timer awaited), "returned" or "thrown"; errors are those of the
\* failed attempts in order, delays the backoffs awaited in order
RetryCall(maxRetries) ==
    [cls |-> "sendWithRetry", maxRetries |-> maxRetries, attempt |-> 1,
     phase |-> "called", errors |-> <<>>, delays |-> <<>>,
     lastError |-> JsUndefined, returnedBy |-> 0, thrownError |-> ""]

InitRetry ==
    /\ handlerType = ""
    /\ envTable = ""
    /\ handler = NoHandler
    /\ SinksEmpty
    /\ lastCall = ProducerCall("sendWithRetry", FALSE)
    /\ hist = HistZero
    /\ pc = "harness"
    /\ exitCode = -1
    /\ messageHandler = "null"
    /\ consumer \in {RetryCall(n) : n \in 0..MaxRetriesArg}
    /\ inflight = NoMessage
    /\ shutdown = 0
    /\ delivery = DeliveryZero

\* the loop head reached with the current attempt number: the next attempt
\* starts, or the loop ends and lastError is thrown
RetryLoopHead(c) ==
    IF RetryLoopContinues(c.attempt, c.maxRetries)
    THEN [c EXCEPT !.phase = "attempt"]
    ELSE [c EXCEPT !.phase = "thrown", !.thrownError = c.lastError]

\* the call runs up to its first await
RetryStart ==
    /\ consumer.phase = "called"
    /\ consumer' = RetryLoopHead(consumer)
    /\ lastCall' = ProducerCall("sendWithRetry", consumer'.phase = "thrown")
    /\ ProducerFrame

\* the awaited connect() and producer.send() of the attempt settle
RetryAttemptSettles(res) ==
    /\ consumer.phase = "attempt"
    /\ IF res = "ok"
       THEN /\ consumer' = [consumer EXCEPT !.phase = "returned",
                                            !.returnedBy = consumer.attempt]
            /\ lastCall' = ProducerCall("sendWithRetry", FALSE)
       ELSE LET failed == [consumer EXCEPT !.lastError = res,
                                          !.errors = Append(@, res)] IN
            IF RetryWaits(consumer.attempt, consumer.maxRetries)
            THEN /\ consumer' =
                      [failed EXCEPT !.phase = "waiting",
                          !.delays = Append(@, BackoffDelay(consumer.attempt))]
                 /\ lastCall' = ProducerCall("attempt", TRUE)
            ELSE /\ consumer' =
                      RetryLoopHead([failed EXCEPT !.attempt = @ + 1])
                 /\ lastCall' = ProducerCall("sendWithRetry",
                                             consumer'.phase = "thrown")
    /\ ProducerFrame

\* the backoff timer fires: attempt++ and the loop head
RetryTimerFires ==
    /\ consumer.phase = "waiting"
    /\ consumer' = RetryLoopHead([consumer EXCEPT !.attempt = @ + 1])
    /\ lastCall' = ProducerCall("sendWithRetry", consumer'.phase = "thrown")
    /\ ProducerFrame

NextRetry ==
    \/ RetryStart
    \/ \E res \in SendErrors \cup {"ok"} : RetryAttemptSettles(res)
    \/ RetryTimerFires

SpecRetry == InitRetry /\ [][NextRetry]_vars /\ WF_vars(NextRetry)

\* ===================================================================
\* SpecLog: a LogConsumer whose processMessage is called by the run loop
\* for up to three partitions at a time
\* ===================================================================
\* TOPICS.LOGS, TOPICS.ERRORS, TOPICS.METRICS
TopicLogs == "application-logs"
TopicErrors == "application-errors"
TopicMetrics == "application-metrics"

\* topics of the messages: those of TOPICS and one that is not among them
LogTopics == {TopicLogs, TopicErrors, TopicMetrics, "user-events"}

\* message.value: null, an empty Buffer, a text that is not JSON, a JSON
\* object and the JSON text null
LogValueObject == "{level:error,message:m}"
LogValues == {BufNull, Buf(""), Buf("not json"), Buf(LogValueObject),
              Buf("null")}

LogPayloads == [topic : LogTopics, partition : Partitions, value : LogValues]

\* what one processMessage call meets: whether heartbeat() resolves, and
\* how the processing handler of the level (or "metric") settles
LogEnv == [heartbeatOk : BOOLEAN, handler : {"ok", "Error", "SyntaxError"}]

\* JSON.parse(messageValue)
LogParse(text) ==
    CASE text = LogValueObject -> "object"
      [] text = "null" -> "null"
      [] OTHER -> "SyntaxError"

\* processLogMessage / processMetricMessage: the error thrown, or "none".
\* Reading a property of a parsed null is a TypeError, also in the catch
\* block of processLogMessage that builds the log entry.
ProcessParsed(topic, parsed, e) ==
    IF topic \in {TopicLogs, TopicErrors}
    THEN IF parsed = "null" THEN "TypeError"
         ELSE IF e.handler = "ok" THEN "none" ELSE e.handler
    ELSE \* processMetricMessage: the handler runs before metricData.name
         IF e.handler # "ok" THEN e.handler
         ELSE IF parsed = "null" THEN "TypeError" ELSE "none"

\* routeMessage: the error it throws, or "none"
RouteMessage(topic, value, e) ==
    LET messageValue == IF value.isNull THEN "" ELSE value.text
        thrown == IF messageValue = "" THEN "none"
                  ELSE IF LogParse(messageValue) = "SyntaxError"
                  THEN "SyntaxError"
                  ELSE IF topic \in {TopicLogs, TopicErrors, TopicMetrics}
                  THEN ProcessParsed(topic, LogParse(messageValue), e)
                  ELSE "none"
    IN IF thrown = "SyntaxError" THEN "none" ELSE thrown

NoStats == [totalMessagesProcessed |-> 0,
            messagesByTopic |-> [t \in LogTopics |-> 0],
            processingErrors |-> 0]

\* updateProcessingStats (an absent topic counter reads as 0)
UpdateProcessingStats(stats, topic) ==
    [stats EXCEPT !.totalMessagesProcessed = @ + 1,
                  !.messagesByTopic[topic] = @ + 1]

\* variant: a catch block that counts the error and rethrows
ProcessMessageRethrows(stats, p, e) ==
    IF ~e.heartbeatOk \/ RouteMessage(p.topic, p.value, e) # "none"
    THEN [stats |-> [stats EXCEPT !.processingErrors = @ + 1],
          thrown |-> TRUE]
    ELSE [stats |-> UpdateProcessingStats(stats, p.topic), thrown |-> FALSE]

\* processMessage: the statistics after the call and whether it rejects
ProcessMessage(stats, p, e) ==
    IF ~e.heartbeatOk \/ RouteMessage(p.topic, p.value, e) # "none"
    THEN [stats |-> [stats EXCEPT !.processingErrors = @ + 1],
          thrown |-> FALSE]
    ELSE [stats |-> UpdateProcessingStats(stats, p.topic), thrown |-> FALSE]

LogCall(op, thrown, p, e) ==
    [op |-> op, thrown |-> thrown, args |-> p, env |-> e]

NoPayload == [topic |-> "", partition |-> 0, value |-> BufNull]

InitLog ==
    /\ handlerType = ""
    /\ envTable = ""
    /\ handler = NoHandler
    /\ SinksEmpty
    /\ lastCall = LogCall("none", FALSE, NoPayload,
                          [heartbeatOk |-> TRUE, handler |-> "ok"])
    /\ hist = HistZero
    /\ pc = "running"
    /\ exitCode = -1
    /\ messageHandler = "null"
    /\ consumer = [cls |-> "LogConsumer", running |-> {}, stats |-> NoStats]
    /\ inflight = NoMessage
    /\ shutdown = 0
    /\ delivery = DeliveryZero

LogFrame ==
    /\ UNCHANGED <<envTable, handlerType, handler, sqlRows, fileLines,
                   esDocs, redisKeys, hist>>
    /\ UNCHANGED <<pc, exitCode, messageHandler, inflight, shutdown>>

\* the run loop calls processMessage, which awaits heartbeat()
ProcessMessageBegin(p) ==
    /\ delivery.delivered < MaxLogMessages
    /\ Cardinality(consumer.running) <
          PartitionsConsumedConcurrently(consumer.cls)
    /\ \A q \in consumer.running : q.partition # p.partition
    /\ consumer' = [consumer EXCEPT !.running = @ \cup {p}]
    /\ delivery' = [delivery EXCEPT !.delivered = @ + 1]
    /\ UNCHANGED lastCall
    /\ LogFrame

\* the rest of processMessage: routeMessage and the statistics
ProcessMessageSettles(p, e) ==
    LET r == ProcessMessage(consumer.stats, p, e) IN
    /\ p \in consumer.running
    /\ consumer' = [consumer EXCEPT !.running = @ \ {p}, !.stats = r.stats]
    /\ delivery' = [delivery EXCEPT
                       !.handlerCalls = @ + 1,
                       !.escaped = IF r.thrown THEN @ + 1 ELSE @]
    /\ lastCall' = LogCall("processMessage", r.thrown, p, e)
    /\ LogFrame

\* resetStats()
ResetStats ==
    /\ consumer.stats # NoStats
    /\ consumer' = [consumer EXCEPT !.stats = NoStats]
    /\ lastCall' = LogCall("resetStats", FALSE, NoPayload, lastCall.env)
    /\ UNCHANGED delivery
    /\ LogFrame

NextLog ==
    \/ \E p \in LogPayloads : ProcessMessageBegin(p)
    \/ \E p \in LogPayloads, e \in LogEnv : ProcessMessageSettles(p, e)
    \/ ResetStats

SpecLog == InitLog /\ [][NextLog]_vars

\* ===================================================================
\* SpecBatch: one request handled by batchSend (producer.service.ts), in
\* its plain and its validating version
\* ===================================================================
BatchVersions == {"plain", "validating"}

\* a message of the body: topic and value, "" for an absent field
BatchMessage == [topic : {"", "topic-a", "topic-b"}, value : {"", "v1"}]

RECURSIVE SeqsUpTo(_, _)
SeqsUpTo(S, n) ==
    IF n = 0 THEN {<<>>}
    ELSE LET shorter == SeqsUpTo(S, n - 1) IN
         shorter \cup {Append(q, x) : q \in shorter, x \in S}

\* req.body: undefined (no body parsed), an object that is no array, or
\* an array of messages
BatchBodies ==
    {[defined |-> FALSE, isArray |-> FALSE, msgs |-> <<>>],
     [defined |-> TRUE, isArray |-> FALSE, msgs |-> <<>>]}
    \cup {[defined |-> TRUE, isArray |-> TRUE, msgs |-> q] :
             q \in SeqsUpTo(BatchMessage, MaxBatch)}

\* the property name a topic becomes in messagesByTopic
TopicKey(topic) == IF topic = "" THEN "undefined" ELSE topic

\* the forEach over the messages: validation errors, valid messages and
\* the topics grouped.  The plain version groups every message and fills
\* neither errors nor validMessages.
GroupMessages(version, msgs) ==
    LET idx == 1..Len(msgs)
        bad == {i \in idx : msgs[i].topic = "" \/ msgs[i].value = ""}
    IN IF version = "plain"
       THEN [errors |-> 0, valid |-> 0,
             topics |-> {TopicKey(msgs[i].topic) : i \in idx}]
       ELSE [errors |-> Cardinality(bad),
             valid |-> Len(msgs) - Cardinality(bad),
             topics |-> {msgs[i].topic : i \in idx \ bad}]

\* resp.status(code).json(...): recorded as attempted; it throws when a
\* response was sent before
Respond(c, code) ==
    [c EXCEPT !.attempts = Append(@, code),
              !.jsonThrew = Len(c.attempts) > 0]

\* the catch block of batchSend: 400 in the plain version, 500 in the
\* validating one; if this respond throws too, the handler rejects
BatchCatch(c) ==
    LET r == Respond(c, IF c.version = "plain" THEN 400 ELSE 500) IN
    [r EXCEPT !.phase = "done", !.rejected = r.jsonThrew]

NewRequest(version, body) ==
    [cls |-> "batchSend", version |-> version, body |-> body,
     phase |-> "received", attempts |-> <<>>, jsonThrew |-> FALSE,
     rejected |-> FALSE, grouped |-> FALSE, errors |-> 0, valid |-> 0,
     topics |-> {}, sent |-> {}, failed |-> {}]

\* batchSend up to its await of Promise.all / Promise.allSettled
BatchSync(c) ==
    LET body == c.body
        c1 == IF ~body.isArray THEN Respond(c, 400) ELSE c
    IN IF ~body.defined
       THEN \* messages.length of undefined is a TypeError
            BatchCatch(c1)
       ELSE LET c2 == IF body.isArray /\ Len(body.msgs) = 0
                      THEN Respond(c1, 400) ELSE c1
            IN IF ~body.isArray
               THEN \* messages.forEach is not a function
                    BatchCatch(c2)
               ELSE LET g == GroupMessages(c.version, body.msgs)
                        c3 == [c2 EXCEPT !.grouped = TRUE,
                                         !.errors = g.errors,
                                         !.valid = g.valid,
                                         !.topics = g.topics]
                        c4 == IF /\ c.version = "validating"
                                 /\ g.errors > 0
                                 /\ g.valid = 0
                              THEN Respond(c3, 400) ELSE c3
                    IN [c4 EXCEPT !.phase = "sending", !.sent = g.topics]

\* the status code chosen by the validating version: sendToTopic catches
\* every Kafka error and resolves, and the wrapper around it marks each
\* resolved result success: true, so every topic counts as successful
StatusCode(c) ==
    LET successfulSends == Cardinality(c.sent)
        failedSends == 0
        hasErrors == c.errors > 0 \/ failedSends > 0
        hasSuccesses == successfulSends > 0
    IN IF hasErrors /\ ~hasSuccesses THEN 500
       ELSE IF hasErrors /\ hasSuccesses THEN 207
       ELSE 200

\* batchSend after its await: the final response
BatchFinish(c, failed) ==
    LET c1 == [c EXCEPT !.failed = failed]
        r == Respond(c1, IF c.version = "plain" THEN 200 ELSE StatusCode(c1))
    IN IF r.jsonThrew
       THEN BatchCatch(r)
       ELSE [r EXCEPT !.phase = "done"]

InitBatch ==
    /\ handlerType = ""
    /\ envTable = ""
    /\ handler = NoHandler
    /\ SinksEmpty
    /\ lastCall = ProducerCall("batchSend", FALSE)
    /\ hist = HistZero
    /\ pc = "harness"
    /\ exitCode = -1
    /\ messageHandler = "null"
    /\ consumer \in {NewRequest(v, b) : v \in BatchVersions, b \in BatchBodies}
    /\ inflight = NoMessage
    /\ shutdown = 0
    /\ delivery = DeliveryZero

\* the handler runs up to its await, or to its end
BatchBegin ==
    /\ consumer.phase = "received"
    /\ consumer' = BatchSync(consumer)
    /\ lastCall' = ProducerCall("batchSend", consumer'.rejected)
    /\ ProducerFrame

\* the sendBatch calls of the topics settle (failed: those that reject)
\* and the handler runs to its end
BatchSettles(failed) ==
    /\ consumer.phase = "sending"
    /\ failed \subseteq consumer.sent
    /\ consumer' = BatchFinish(consumer, failed)
    /\ lastCall' = ProducerCall("batchSend", consumer'.rejected)
    /\ ProducerFrame

NextBatch ==
    \/ BatchBegin
    \/ \E failed \in SUBSET {"undefined", "topic-a", "topic-b"} :
          BatchSettles(failed)

SpecBatch == InitBatch /\ [][NextBatch]_vars

\* ===================================================================
\* Properties of SpecHandler
\* ===================================================================

\* C2 (as claimed): with K malformed messages among N well-formed ones and
\* no sink fault, totalProcessed = N and errors = K once all are processed.
C2_CountsMatchMessages ==
    ~hist.faulted =>
        /\ handler.totalProcessed = hist.well
        /\ handler.errors = hist.malformed

\* C5: the healthy flag of getBaseStatus is true exactly when errors = 0 or
\* totalProcessed exceeds ten times max(errors, 1); so it is true whenever
\* errors = 0 and false whenever errors / totalProcessed > 0.1.
C5_HealthyIffRatio ==
    LET s == getBaseStatus(handler)
        t == handler.totalProcessed
        e == handler.errors
    IN /\ s.healthy <=> (e = 0 \/ t > 10 * Max(e, 1))
       /\ e = 0 => s.healthy
       /\ 10 * e > t => ~s.healthy

C5_Witness ==
    /\ lastCall.op = "getStatus"
    /\ handler.cls = "ElasticHandler"
    /\ lastCall.status.errors > 0
    /\ lastCall.status.healthy

\* the healthy flag getStatus reports while the backing store answers
ReportsHealthy(h) == CallGetStatus(h, Sinks, TRUE).healthy

\* C6: health is a ratio and is not latched: in any state with errors > 0
\* and totalProcessed > 10 x errors getStatus reports healthy; every
\* successful dispatch to an ElasticHandler moves totalProcessed one closer
\* to that threshold without touching errors; and a handler reporting
\* healthy keeps reporting it for as long as errors does not change.
C6_NotLatched ==
    /\ [](handler.errors > 0
            /\ handler.totalProcessed > 10 * handler.errors
          => ReportsHealthy(handler))
    /\ [][(/\ handler.cls = "ElasticHandler"
           /\ lastCall'.op = "handlerFn"
           /\ ~lastCall'.thrown)
          => /\ handler'.totalProcessed = handler.totalProcessed + 1
             /\ handler'.errors = handler.errors]_vars
    /\ [][(ReportsHealthy(handler) /\ handler'.errors = handler.errors)
          => ReportsHealthy(handler')]_vars

C6_Witness ==
    /\ lastCall.op = "getStatus"
    /\ handler.cls = "ElasticHandler"
    /\ lastCall.status.errors > 0
    /\ lastCall.status.totalProcessed = 10 * lastCall.status.errors + 1
    /\ lastCall.status.healthy

\* C7: totalProcessed and errors never decrease, whatever sequence of
\* initialize, dispatch, getStatus and cleanup is applied.
C7_CountersMonotone ==
    [][/\ handler'.totalProcessed >= handler.totalProcessed
       /\ handler'.errors >= handler.errors]_vars

C7_Witness ==
    /\ lastCall.op = "cleanup"
    /\ ~lastCall.thrown
    /\ handler.totalProcessed > 0
    /\ handler.errors > 0

\* C8 (as claimed): the healthy flag every getStatus returns is the
\* threshold function of (totalProcessed, errors).
C8_HealthyFromCountersOnly ==
    lastCall.op = "getStatus" =>
        lastCall.status.healthy =
            (handler.errors = 0
             \/ handler.totalProcessed > 10 * Max(handler.errors, 1))

\* C8 (amended): ElasticHandler and FileHandler report the threshold
\* function of the counters; SqlHandler reports it unless the record-count
\* query failed, and then false; FlinkHandler reports whether the
\* JobManager answered; RedisHandler always reports true.
C8_HealthyPerAdapter ==
    lastCall.op = "getStatus" =>
        LET st == lastCall.status
            byCounters == (handler.errors = 0
                           \/ handler.totalProcessed > 10 * Max(handler.errors, 1))
        IN CASE handler.cls \in {"ElasticHandler", "FileHandler"} ->
                  st.healthy = byCounters
             [] handler.cls = "SqlHandler" ->
                  st.healthy = (byCounters
                                /\ ~(handler.conn = "open" /\ st.diagnostic))
             [] handler.cls = "FlinkHandler" ->
                  st.healthy = (st.connected = "yes")
             [] OTHER ->
                  st.healthy

C8_Witness ==
    /\ lastCall.op = "getStatus"
    /\ handler.cls = "FlinkHandler"
    /\ handler.errors = 0
    /\ ~lastCall.status.healthy

AdapterRejects(cls, c) ==
    CASE cls = "SqlHandler" -> TRUE
      [] cls = "FileHandler" -> ~c.sinkOk
      [] cls = "ElasticHandler" -> ~c.ready \/ ~c.sinkOk
      [] cls = "RedisHandler" -> ~c.ready \/ c.malformed \/ ~c.sinkOk
      [] OTHER -> FALSE

C1_RowsEqualDistinctTriples ==
    /\ [](/\ Cardinality(sqlRows) = Cardinality(hist.triples)
          /\ \A t \in hist.triples :
                Cardinality({r \in sqlRows :
                    SameKey(r, t.topic, t.partition, t.offset)}) = 1)
    /\ [][hist'.triples = hist.triples
          => Cardinality(sqlRows') = Cardinality(sqlRows)]_vars

C1_Witness ==
    /\ handler.cls = "SqlHandler"
    /\ lastCall.op = "safeProcessSingle"
    /\ ~lastCall.thrown
    /\ lastCall.changes = 0
    /\ Cardinality(sqlRows) = 2

\* ===================================================================
\* Properties of Spec
\* ===================================================================

ExpectedClass(n) ==
    CASE n \in {"sql", "sqlite"} -> "SqlHandler"
      [] n = "file" -> "FileHandler"
      [] n \in {"elastic", "elasticsearch"} -> "ElasticHandler"
      [] n = "flink" -> "FlinkHandler"
      [] n = "redis" -> "RedisHandler"
      [] OTHER -> "none"

\* C9: once startup has called getHandler, the adapter is the one the
\* identifier names ("sql" and "sqlite" give a SqlHandler carrying the
\* configured table name), and for any other identifier an error was
\* raised and no adapter exists.
C9_GetHandlerMapping ==
    delivery.startupRan =>
        /\ handler.cls = ExpectedClass(HANDLER_TYPE)
        /\ HANDLER_TYPE \in {"sql", "sqlite"} =>
              handler.tableName =
                  (IF envTable = "" THEN "kafka_messages" ELSE envTable)
        /\ HANDLER_TYPE \notin MessageHandlerTypes =>
              /\ handler = NoHandler
              /\ lastCall.op = "getHandler"
              /\ lastCall.thrown

C9_Witness ==
    /\ delivery.startupRan
    /\ handlerType = "sqlite"
    /\ envTable = "events_tbl"
    /\ handler.cls = "SqlHandler"
    /\ handler.tableName = "events_tbl"

\* C10: with an unrecognized handler type nothing is ever connected,
\* subscribed, registered or consumed, and once startup has run the
\* process has exited with code 1 on the error of getHandler.
C10_UnknownHandlerFailsFast ==
    HANDLER_TYPE \notin MessageHandlerTypes =>
        /\ ~consumer.connected
        /\ ~consumer.subscribed
        /\ ~consumer.registered
        /\ ~consumer.clientRunning
        /\ delivery.delivered = 0
        /\ messageHandler = "null"
        /\ delivery.startupRan =>
              /\ pc = "exited"
              /\ exitCode = 1
              /\ lastCall.op = "getHandler"
              /\ lastCall.thrown

C10_Witness ==
    /\ handlerType = "carrierpigeon"
    /\ delivery.startupRan
    /\ pc = "exited"
    /\ exitCode = 1

\* the identifiers getHandler accepts
AcceptedByGetHandler ==
    {n \in HandlerTypeEnv : ~getHandler(n, envTable).thrown}

\* C11 (as claimed): the error getHandler raises for an unrecognized
\* identifier lists exactly the identifiers getHandler accepts.
C11_ErrorListsAcceptedSet ==
    (lastCall.op = "getHandler" /\ lastCall.thrown) =>
        lastCall.available = AcceptedByGetHandler

\* a handler object as its constructor leaves it: no client, database or
\* prepared statement
Constructed(h) == h.conn = "none" /\ ~h.insertStmt

\* C12: getHandler only constructs (the adapter it returns holds no
\* connection, and while the first initialize() is pending nothing has
\* been opened or written); createMessageHandler calls initialize() once;
\* and a message is dispatched only after that call has resolved and
\* createMessageHandler has returned the handler function.
C12_InitializeOnceBeforeDispatch ==
    /\ \A n \in MessageHandlerTypes : Constructed(getHandler(n, envTable).h)
    /\ pc = "initializing" => Constructed(handler) /\ SinksEmpty
    /\ delivery.initCalls <= 1
    /\ (inflight # NoMessage \/ delivery.delivered > 0 \/ hist # HistZero) =>
          /\ delivery.initCalls = 1
          /\ messageHandler = "fn"
          /\ pc \notin {"boot", "initializing"}
    /\ messageHandler = "fn" => delivery.initCalls = 1

C12_Witness ==
    /\ handler.cls = "RedisHandler"
    /\ delivery.initCalls = 1
    /\ lastCall.op = "handlerFn"
    /\ ~lastCall.thrown
    /\ delivery.delivered >= 2

\* the process was ended by a signal listener after the handler function
\* had been created
ExitedOnSignal ==
    /\ pc = "exited"
    /\ exitCode = 0
    /\ messageHandler = "fn"

\* C13 (as claimed): when a signal ends the process after the handler was
\* created, cleanup() of the adapter has been executed before the exit.
C13_CleanupRunsOnSignal ==
    ExitedOnSignal => delivery.cleanupCalls >= 1

\* C14 (as claimed): in every interleaving of signals, at most one
\* cleanup() and at most one Kafka disconnect are issued.
C14_OneCleanupOneDisconnect ==
    /\ delivery.cleanupCalls <= 1
    /\ shutdown <= 1

\* C15 (as claimed): a process ended by a signal has let the dispatch in
\* flight finish and has then run cleanup(), after which the adapter
\* holds no connection and receives no message.
C15_StopThenCleanup ==
    /\ ExitedOnSignal =>
          /\ inflight = NoMessage
          /\ delivery.cleanupCalls >= 1
          /\ handler.conn # "open"
    /\ delivery.cleanupCalls >= 1 => inflight = NoMessage

\* an instance whose initialize() was never called or did not get through
\* (FileHandler and FlinkHandler hold nothing either way)
NotInitialized(h) == ~Ready(h) \/ h.cls \in {"FileHandler", "FlinkHandler"}

\* C16 (as claimed): cleanup() on an instance whose initialize() was never
\* called or failed part-way returns without throwing and leaves no open
\* client, database or prepared statement.
C16_CleanupSafeWhenUninitialized ==
    [][(lastCall'.op = "cleanup" /\ NotInitialized(handler))
       => /\ ~lastCall'.thrown
          /\ handler'.conn # "open"
          /\ ~handler'.insertStmt]_vars

\* the adapter has a client or database and it is unset, unconnected or
\* closed
StoreNotConnected(h) ==
    /\ h.cls \in {"SqlHandler", "ElasticHandler", "RedisHandler"}
    /\ h.conn # "open"

\* C17 (as claimed): getStatus() never throws, and on an adapter whose
\* backing store is not connected or closed it returns healthy: false
\* with a diagnostic.
C17_StatusUnhealthyWhenUnreachable ==
    lastCall.op = "getStatus" =>
        /\ ~lastCall.thrown
        /\ StoreNotConnected(handler) =>
              /\ ~lastCall.status.healthy
              /\ lastCall.status.diagnostic

\* C18 (as claimed): once an initialize() that could not reach or open
\* its backing store has settled, the process has exited with a non-zero
\* code and nothing was connected, subscribed or dispatched.
C18_InitFailureIsFatal ==
    delivery.initRes \in InitResults \ {"ok"} =>
        /\ pc = "exited"
        /\ exitCode # 0
        /\ messageHandler = "null"
        /\ ~consumer.connected
        /\ ~consumer.subscribed
        /\ delivery.delivered = 0

\* ===================================================================
\* Properties of SpecIndex
\* ===================================================================

\* the step is a call of the handler function
IsDispatchStep ==
    hist'.well + hist'.malformed = hist.well + hist.malformed + 1

\* the line FileHandler writes for message m
FileLine(m) == [topic |-> m.topic, text |-> JSONStringify(m.value)]

\* C19: the file adapter is append-only and not idempotent: a successful
\* dispatch adds exactly one line, the line of the dispatched message, at
\* the end of the file, whether or not that line is already there; every
\* other step (a failed dispatch, getStatus, initialize, cleanup) leaves
\* the file as it is.
C19_FileAppendOnly ==
    [][handler.cls = "FileHandler" =>
         IF IsDispatchStep /\ ~lastCall'.thrown
         THEN \E m \in IndexMessages :
                 /\ Malformed(m) = lastCall'.malformed
                 /\ fileLines' = Append(fileLines, FileLine(m))
         ELSE fileLines' = fileLines]_vars

C19_Witness ==
    /\ handler.cls = "FileHandler"
    /\ lastCall.op = "handlerFn"
    /\ ~lastCall.thrown
    /\ Len(fileLines) = 2
    /\ fileLines[1] = fileLines[2]

C21_RedisLastWriteWins ==
    /\ [](\A k \in redisKeys :
            /\ k.ttl = LocationTTL
            /\ k.ttl > 0
            /\ \A x \in redisKeys : x.key = k.key => x = k)
    /\ [][(handler.cls = "RedisHandler" /\ IsDispatchStep)
          => /\ ~lastCall'.thrown =>
                  \E m \in IndexMessages :
                     LET names == RedisKeysOf(JSONParse(m.value))
                         mine == {names.user, names.vehicle, names.time}
                     IN /\ JSONParse(m.value).ok
                        /\ \A n \in mine :
                              [key |-> n, ttl |-> LocationTTL,
                               value |-> m.value] \in redisKeys'
                        /\ {k \in redisKeys' : k.key \notin mine}
                              = {k \in redisKeys : k.key \notin mine}
             /\ (lastCall'.ready /\ ~lastCall'.malformed /\ lastCall'.sinkOk)
                  => ~lastCall'.thrown]_vars

C21_Witness ==
    /\ handler.cls = "RedisHandler"
    /\ lastCall.op = "handlerFn"
    /\ ~lastCall.thrown
    /\ handler.totalProcessed = 2
    /\ [key |-> "location:user:u1", ttl |-> LocationTTL, value |-> VJsonB]
          \in redisKeys
    /\ [key |-> "location:vehicle:v1", ttl |-> LocationTTL, value |-> VJsonA]
          \in redisKeys

\* C22 (as claimed): a dispatch to SqlHandler of a message whose triple is
\* already stored returns as a duplicate (no row changed) without an
\* error being counted, and is counted as processed like the inserts
\* before it.
C22_DuplicateCountedAsProcessed ==
    (/\ handler.cls = "SqlHandler"
     /\ lastCall.op = "safeProcessSingle"
     /\ ~lastCall.thrown
     /\ lastCall.changes = 0)
    => /\ sqlRows # {}
       /\ handler.errors = 0
       /\ handler.totalProcessed >= Cardinality(sqlRows) + 1

\* C23 (as claimed): a dispatch changes exactly one counter by one: a
\* successful one adds 1 to totalProcessed and sets lastProcessed, leaving
\* errors; a failed one adds 1 to errors, leaving totalProcessed and
\* lastProcessed.
C23_OneCounterPerDispatch ==
    [][IsDispatchStep =>
         IF ~lastCall'.thrown
         THEN /\ handler'.totalProcessed = handler.totalProcessed + 1
              /\ handler'.errors = handler.errors
              /\ handler'.lastProcessed # 0
         ELSE /\ handler'.errors = handler.errors + 1
              /\ handler'.totalProcessed = handler.totalProcessed
              /\ handler'.lastProcessed = handler.lastProcessed]_vars

\* calls of the handler function that have settled
SettledCalls == hist.well + hist.malformed

WrittenBy(cls, m) ==
    CASE cls = "FileHandler" ->
           fileLines' = Append(fileLines, FileLine(m))
      [] cls = "ElasticHandler" ->
           esDocs' = {d \in esDocs : d.id # m.offset}
                     \cup {[id |-> m.offset,
                            body |-> [topic |-> m.topic,
                                      partition |-> m.partition,
                                      offset |-> m.offset,
                                      messageValue |-> m.value]]}
      [] cls = "RedisHandler" ->
           LET names == RedisKeysOf(JSONParse(m.value)) IN
           \A n \in {names.user, names.vehicle, names.time} :
              \E k \in redisKeys' : k.key = n /\ k.value = m.value
      [] cls = "FlinkHandler" ->
           UNCHANGED <<sqlRows, fileLines, esDocs, redisKeys>>
      [] OTHER -> FALSE

\* C25: nothing is buffered or reordered: when the handler function
\* resolves for a message, the sink holds that message's write, placed
\* after all earlier ones (the file grows at its end); when it rejects,
\* file and index are as before; and no step other than a handler call
\* changes a sink, so no write is deferred to a later flush.
C25_NoReorderNoBuffer ==
    [][/\ (inflight # NoMessage /\ IsDispatchStep /\ ~lastCall'.thrown)
          => WrittenBy(handler.cls, inflight)
       /\ (inflight # NoMessage /\ IsDispatchStep /\ lastCall'.thrown)
          => UNCHANGED <<sqlRows, fileLines, esDocs>>
       /\ ~IsDispatchStep
          => UNCHANGED <<sqlRows, fileLines, esDocs, redisKeys>>]_vars

C25_Witness ==
    /\ handler.cls = "FileHandler"
    /\ delivery.delivered = 2
    /\ inflight = NoMessage
    /\ fileLines = <<[topic |-> "user-events", text |-> JSONStringify(VText)],
                     [topic |-> "user-events", text |-> JSONStringify(VJsonA)]>>

\* ===================================================================
\* Properties of SpecLoop
\* ===================================================================

\* C26 (as claimed): at most one call of the message callback is in
\* flight at any time.
C26_OneCallInFlight ==
    Cardinality(consumer.running) <= 1

\* C26 (amended): at most one call is in flight per partition;
\* KafkaConsumerService has at most one call in flight in all, while
\* LogConsumer has up to three, each of a different partition.
C26_OneCallInFlightPerPartition ==
    /\ \A x, y \in consumer.running : x.partition = y.partition => x = y
    /\ consumer.cls = "KafkaConsumerService"
          => Cardinality(consumer.running) <= 1
    /\ consumer.cls = "LogConsumer" => Cardinality(consumer.running) <= 3

C26_Witness ==
    /\ consumer.cls = "LogConsumer"
    /\ Cardinality(consumer.running) = 3
    /\ delivery.caught = 0

\* ===================================================================
\* Properties of SpecOverlap
\* ===================================================================

\* C27 (as claimed): when calls on one FileHandler overlap, at most one
\* append to the file is in progress at any time.
C27_FileWritesSerialized ==
    Cardinality(FileAppending(consumer.running)) <= 1

\* ===================================================================
\* Further properties of SpecHandler
\* ===================================================================

\* C29 (as claimed): for every accepted handler type, a message given to
\* the function of createMessageHandler reaches the adapter's dispatch
\* method: on an initialized adapter whose store accepts the write, a
\* well-formed message is not rejected.
C29_EveryTypeReachesDispatch ==
    (/\ lastCall.op = "handlerFn"
     /\ lastCall.ready
     /\ lastCall.sinkOk
     /\ ~lastCall.malformed) => ~lastCall.thrown

\* C30 (as claimed): for every adapter, the totalProcessed and errors
\* that getStatus() returns are the numbers of dispatches that succeeded
\* and that failed: both are 0 after construction, a successful dispatch
\* adds 1 to the reported totalProcessed only, a failed one adds 1 to the
\* reported errors only, and no other step changes what is reported.
C30_StatusCountsDispatches ==
    /\ \A ok \in BOOLEAN :
          /\ CallGetStatus(handler, Sinks, ok).totalProcessed = 0
          /\ CallGetStatus(handler, Sinks, ok).errors = 0
    /\ [][\A ok \in BOOLEAN :
            LET before == CallGetStatus(handler, Sinks, ok)
                after == CallGetStatus(handler', Sinks', ok)
                succeeded == IF IsDispatchStep /\ ~lastCall'.thrown
                             THEN 1 ELSE 0
                failed == IF IsDispatchStep /\ lastCall'.thrown
                          THEN 1 ELSE 0
            IN /\ after.totalProcessed = before.totalProcessed + succeeded
               /\ after.errors = before.errors + failed]_vars

\* ===================================================================
\* Properties of SpecDeliver
\* ===================================================================
\* the handler was called with the fields of the delivery bm
CalledWith(call, bm) ==
    /\ call.op = "handler"
    /\ call.args.topic = bm.topic
    /\ call.args.partition = bm.partition
    /\ call.args.offset = bm.offset
    /\ call.args.key = (IF bm.key.isNull THEN JsUndefined ELSE bm.key.text)
    /\ ~bm.value.isNull /\ call.args.value = bm.value.text
    /\ call.args.headers = OrElse(bm.headers, "{}")

\* C28 (as claimed): every message delivered on a topic with a registered
\* handler invokes that handler exactly once, with the message's topic,
\* partition, offset, key, value and headers; a message on a topic with
\* no registered handler invokes no handler and raises no error; no other
\* step invokes a handler.
C28_HandlerOncePerDelivery ==
    [][/\ delivery'.delivered = delivery.delivered + 1 =>
            IF consumer'.lastDelivered.topic \in consumer.messageHandlers
            THEN /\ delivery'.handlerCalls = delivery.handlerCalls + 1
                 /\ CalledWith(lastCall', consumer'.lastDelivered)
            ELSE /\ delivery'.handlerCalls = delivery.handlerCalls
                 /\ delivery'.caught = delivery.caught
       /\ delivery'.delivered = delivery.delivered =>
            delivery'.handlerCalls = delivery.handlerCalls]_vars

\* C34 (as claimed): the service calls consumer.run at most once between
\* stops, and a startConsuming call made while the service is running or
\* while an earlier startConsuming is still in progress fails with
\* "Consumer is already running".
C34_RunLoopStartedOnce ==
    [][/\ consumer'.runCalls <= 1
       /\ (/\ consumer'.startCalls = consumer.startCalls + 1
           /\ consumer.isRunning \/ consumer.starting > 0)
          => /\ lastCall'.op = "startConsuming"
             /\ lastCall'.thrown
             /\ consumer'.runCalls = consumer.runCalls]_vars

\* ===================================================================
\* Further properties of Spec
\* ===================================================================

\* C33 (as claimed): once kafkaServiceConsumer.disconnect() has returned
\* in a signal listener (the process has exited on the signal), the broker
\* client of the consumer is disconnected, whenever the signal came.
C33_DisconnectDisconnectsClient ==
    ExitedOnSignal => ~consumer.connected

\* ===================================================================
\* Further properties of SpecDirect
\* ===================================================================

\* C32: the relational store is first-write-wins: a row, once in the
\* table, stays there with every column as first written, and no other
\* row of its (topic, partition, offset) appears, whatever is dispatched
\* later.
C32_FirstWriteWins ==
    [][\A r \in sqlRows :
          /\ r \in sqlRows'
          /\ \A x \in sqlRows' :
                SameKey(x, r.topic, r.partition, r.offset) => x = r]_vars

\* a message with a non-JSON payload was dispatched without error and
\* changed nothing, while every row holds the JSON payload written first
C32_Witness ==
    /\ handler.cls = "SqlHandler"
    /\ lastCall.op = "safeProcessSingle"
    /\ ~lastCall.thrown
    /\ lastCall.changes = 0
    /\ lastCall.malformed
    /\ sqlRows # {}
    /\ \A r \in sqlRows : r.message_value = JSONStringify(VJsonA)

\* ===================================================================
\* Properties of SpecElastic
\* ===================================================================
\* the last message of the sequence sent that has offset o
LastWithOffset(sent, o) ==
    sent[CHOOSE i \in 1..Len(sent) :
            /\ sent[i].offset = o
            /\ \A j \in (i + 1)..Len(sent) : sent[j].offset # o]

\* C31: the index holds one document per distinct offset among the
\* messages dispatched successfully, whatever their topics and partitions,
\* and the document of an offset is made from the last of them.
C31_OneDocumentPerOffset ==
    LET sent == hist.triples
        offsets == {sent[i].offset : i \in 1..Len(sent)}
    IN /\ Cardinality(esDocs) = Cardinality(offsets)
       /\ \A o \in offsets :
             LET m == LastWithOffset(sent, o) IN
             \E d \in esDocs :
                /\ d.id = o
                /\ d.body = [topic |-> m.topic, partition |-> m.partition,
                             offset |-> m.offset, messageValue |-> m.value]

C31_Witness ==
    /\ Len(hist.triples) = 2
    /\ hist.triples[1].offset = hist.triples[2].offset
    /\ hist.triples[1].partition # hist.triples[2].partition
    /\ hist.triples[1].topic # hist.triples[2].topic
    /\ Cardinality(esDocs) = 1

\* ===================================================================
\* Properties of SpecProducer
\* ===================================================================

\* C35 (as claimed): the service calls producer.connect() at most once
\* between disconnects, however its send calls interleave, and a
\* disconnect() on an unconnected service calls nothing on the client.
C35_ConnectsOnce ==
    [][/\ consumer'.connectCalls <= 1
       /\ (lastCall'.op = "disconnect" /\ consumer'.calls = consumer.calls + 1
           /\ ~consumer.isConnected)
          => /\ consumer'.disconnectCalls = consumer.disconnectCalls
             /\ consumer'.connectCalls = consumer.connectCalls]_vars

\* ===================================================================
\* Properties of SpecRetry
\* ===================================================================
RetryDone == consumer.phase \in {"returned", "thrown"}

\* attempts made so far: the failed ones, the successful one, and the one
\* in progress
RetryAttempts ==
    Len(consumer.errors)
    + (IF consumer.phase \in {"returned", "attempt"} THEN 1 ELSE 0)

\* C36: sendWithRetry terminates; it makes at most maxRetries attempts; it
\* returns at the first successful attempt, after which nothing more is
\* done; the backoff after failed attempt i is 2^i * 100 ms and there is
\* one after every failed attempt but the maxRetries-th; it throws only
\* after maxRetries failed attempts, and then the error of the last one.
C36_RetryTerminates ==
    /\ <>RetryDone
    /\ [](/\ RetryAttempts <= consumer.maxRetries
          /\ consumer.phase = "returned" =>
                consumer.returnedBy = Len(consumer.errors) + 1
          /\ \A i \in 1..Len(consumer.delays) :
                consumer.delays[i] = (2 ^ i) * 100
          /\ Len(consumer.delays) =
                IF consumer.phase = "thrown"
                THEN Max(consumer.maxRetries - 1, 0)
                ELSE Len(consumer.errors)
          /\ consumer.phase = "thrown" =>
                /\ Len(consumer.errors) = consumer.maxRetries
                /\ Len(consumer.errors) > 0 =>
                      consumer.thrownError =
                         consumer.errors[Len(consumer.errors)])
    /\ [][~RetryDone]_vars

C36_Witness ==
    /\ consumer.phase = "thrown"
    /\ consumer.maxRetries = 3
    /\ Len(consumer.errors) = 3
    /\ consumer.errors[1] # consumer.errors[3]
    /\ consumer.delays = <<200, 400>>

\* ===================================================================
\* Properties of SpecLog
\* ===================================================================
RECURSIVE SumOver(_, _)
SumOver(f, S) ==
    IF S = {} THEN 0
    ELSE LET x == CHOOSE y \in S : TRUE IN f[x] + SumOver(f, S \ {x})

\* the message has no value, is not JSON, or is of no topic of TOPICS
CountedAsProcessed(p) ==
    \/ p.value.isNull
    \/ p.value.text = ""
    \/ LogParse(p.value.text) = "SyntaxError"
    \/ p.topic \notin {TopicLogs, TopicErrors, TopicMetrics}

C38_OneResponsePerRequest ==
    /\ Len(consumer.attempts) <= 1
    /\ consumer.phase = "done" => Len(consumer.attempts) = 1
    /\ (consumer.phase # "received"
        /\ (~consumer.body.isArray \/ consumer.body.msgs = <<>>))
       => /\ consumer.attempts = <<400>>
          /\ consumer.phase = "done"
          /\ ~consumer.grouped
          /\ consumer.sent = {}

\* C39 (as claimed): for a request with at least one valid message, the
\* validating batchSend answers 200 only if every topic's sendBatch
\* succeeded (and no message failed validation), 207 if some topic
\* succeeded while a topic or a message failed, and 500 if no topic
\* succeeded.
C39_StatusReportsKafkaFailures ==
    (/\ consumer.version = "validating"
     /\ consumer.phase = "done"
     /\ consumer.valid > 0)
    => LET succeeded == consumer.sent \ consumer.failed IN
       consumer.attempts =
          << IF succeeded = {} THEN 500
             ELSE IF consumer.failed # {} \/ consumer.errors > 0 THEN 207
             ELSE 200 >>

====
